---- MODULE Spec2Model ----
(***************************************************************************)
(* Model of python_scripts/word_grid_solver_general_V10.py: the            *)
(* backtracking grid filler find_solutions_for_grid with its helpers       *)
(* (prefilter_candidates, order_slots, slot_equivalence_classes) and the   *)
(* layout enumerator enumerate_layouts with its structural validators.     *)
(*                                                                         *)
(* Letters are one-character strings, a word is a sequence of letters, a   *)
(* cell is a pair <<row, column>>.  Positions inside a slot are 0-based as *)
(* in the source; TLA+ sequences are 1-based, hence the "+ 1" on indexing. *)
(***************************************************************************)
EXTENDS Integers, Sequences, FiniteSets, TLC

\* ------------------------------------------------------------------------
\* Generic helpers (Python built-ins used by the source)
\* ------------------------------------------------------------------------

\* The letters the modelled inputs use, in code-point order (str comparison).
Alphabet == <<"A", "B", "E", "L", "N", "O", "R", "S", "T">>

Letters == {Alphabet[i] : i \in DOMAIN Alphabet}

\* ord(ch), restricted to the alphabet in use.
Ord(ch) == CHOOSE i \in DOMAIN Alphabet : Alphabet[i] = ch

Range(s) == {s[i] : i \in DOMAIN s}

Min2(a, b) == IF a <= b THEN a ELSE b

RECURSIVE SumOver(_, _)
SumOver(f, S) ==
    IF S = {} THEN 0
    ELSE LET x == CHOOSE y \in S : TRUE IN f[x] + SumOver(f, S \ {x})

\* Python's  u < v  on two str values: lexicographic, a proper prefix is smaller.
RECURSIVE WordLessFrom(_, _, _)
WordLessFrom(u, v, i) ==
    IF i > Len(v) THEN FALSE
    ELSE IF i > Len(u) THEN TRUE
    ELSE IF Ord(u[i]) < Ord(v[i]) THEN TRUE
    ELSE IF Ord(u[i]) > Ord(v[i]) THEN FALSE
    ELSE WordLessFrom(u, v, i + 1)

WordLess(u, v) == WordLessFrom(u, v, 1)

\* Python's  a < b  on two orientation strings, each "H" or "V".
OrientLess(a, b) == a = "H" /\ b = "V"

\* Python's tuple comparison of two (orient, length, pos) triples.
TouchLess(a, b) ==
    \/ OrientLess(a[1], b[1])
    \/ a[1] = b[1] /\ a[2] < b[2]
    \/ a[1] = b[1] /\ a[2] = b[2] /\ a[3] < b[3]

\* sorted(seq) for the order Less, stable: the element of rank p goes to place p.
Sorted(s, Less(_, _)) ==
    LET rank(i) == 1 + Cardinality({j \in DOMAIN s :
                        \/ Less(s[j], s[i])
                        \/ ~Less(s[i], s[j]) /\ j < i})
    IN  [p \in DOMAIN s |-> s[CHOOSE i \in DOMAIN s : rank(i) = p]]

\* Counter(letters): occurrences of every letter (0 for an absent one).
Counter(word) ==
    [ch \in Letters |-> Cardinality({i \in DOMAIN word : word[i] = ch})]

\* ------------------------------------------------------------------------
\* build_slots_and_intersections: the crossing records of a slot list
\* ------------------------------------------------------------------------

\* Variant: the across span starts at the left edge instead of being centred.
horizontal_segment_flush_left(w, L) == <<0, L - 1>>

\* start, end of a centred across span of length L in a grid of width w.
horizontal_segment_for_width(w, L) ==
    LET start == (w - L) \div 2 IN <<start, start + L - 1>>

\* The ascending sequence of a finite set of integers.
SortedInts(S) ==
    [p \in 1..Cardinality(S) |->
        CHOOSE x \in S : Cardinality({y \in S : y < x}) = p - 1]

\* An across slot; its id <<"H", r, cs, ce>> stands for the string "H@R{r}:C{cs}-{ce}".
AcrossSlot(w, r, Lh) ==
    LET seg == horizontal_segment_for_width(w, Lh)
    IN  [id |-> <<"H", r, seg[1], seg[2]>>, orient |-> "H", length |-> Lh,
         cells |-> [k \in 1..Lh |-> <<r, seg[1] + k - 1>>]]

\* A down slot; its id <<"V", c, s, e>> stands for the string "V@C{c}:R{s}-{e}".
DownSlot(c, s, L) ==
    [id |-> <<"V", c, s, s + L - 1>>, orient |-> "V", length |-> L,
     cells |-> [k \in 1..L |-> <<s + k - 1, c>>]]

\* The slot list: across slots by row, then down slots by column.
\* h_rows_with_len is a sequence of <<row, length>>, v_cols_with_seg a function
\* column -> <<start row, length>>.
BuildSlots(w, h_rows_with_len, v_cols_with_seg) ==
    LET rows == SortedInts({h_rows_with_len[i][1] : i \in DOMAIN h_rows_with_len})
        lenOf(r) == (CHOOSE x \in Range(h_rows_with_len) : x[1] = r)[2]
        cols == SortedInts(DOMAIN v_cols_with_seg)
    IN  [i \in DOMAIN rows |-> AcrossSlot(w, rows[i], lenOf(rows[i]))]
        \o [j \in DOMAIN cols |->
               DownSlot(cols[j], v_cols_with_seg[cols[j]][1],
                        v_cols_with_seg[cols[j]][2])]

\* 0-based position of cell in the slot's cell list ( ai[cell] ).
PosOf(slot, cell) == (CHOOSE k \in DOMAIN slot.cells : slot.cells[k] = cell) - 1

\* Variant: the inner loop runs over every other slot, not only the later ones.
Intersections_every_pair(slots) ==
    LET n == Len(slots)
        m == CHOOSE x \in {Len(slots[i].cells) : i \in DOMAIN slots} :
                 \A i \in DOMAIN slots : Len(slots[i].cells) <= x
        I(t) == ((t - 1) \div (n * m)) + 1
        J(t) == (((t - 1) \div m) % n) + 1
        K(t) == ((t - 1) % m) + 1
        Hit(t) == /\ I(t) # J(t)
                  /\ K(t) <= Len(slots[J(t)].cells)
                  /\ slots[J(t)].cells[K(t)] \in Range(slots[I(t)].cells)
        hits == SelectSeq([t \in 1..(n * n * m) |-> t], Hit)
    IN  [x \in DOMAIN hits |->
            LET a == slots[I(hits[x])]
                b == slots[J(hits[x])]
                cell == b.cells[K(hits[x])]
            IN  [slot_a |-> a.id, pos_a |-> PosOf(a, cell),
                 slot_b |-> b.id, pos_b |-> K(hits[x]) - 1, cell |-> cell]]

\* The loop nest  for i / for j in range(i+1, n) / for k, cell in b.cells,
\* flattened to one index t in row-major order.
Intersections(slots) ==
    LET n == Len(slots)
        m == CHOOSE x \in {Len(slots[i].cells) : i \in DOMAIN slots} :
                 \A i \in DOMAIN slots : Len(slots[i].cells) <= x
        I(t) == ((t - 1) \div (n * m)) + 1
        J(t) == (((t - 1) \div m) % n) + 1
        K(t) == ((t - 1) % m) + 1
        Hit(t) == /\ I(t) < J(t)
                  /\ K(t) <= Len(slots[J(t)].cells)
                  /\ slots[J(t)].cells[K(t)] \in Range(slots[I(t)].cells)
        hits == SelectSeq([t \in 1..(n * n * m) |-> t], Hit)
    IN  [x \in DOMAIN hits |->
            LET a == slots[I(hits[x])]
                b == slots[J(hits[x])]
                cell == b.cells[K(hits[x])]
            IN  [slot_a |-> a.id, pos_a |-> PosOf(a, cell),
                 slot_b |-> b.id, pos_b |-> K(hits[x]) - 1, cell |-> cell]]

\* ------------------------------------------------------------------------
\* Candidate generation, slot order, equivalence classes
\* ------------------------------------------------------------------------

\* words_by_len.get(L, [])
PoolOfLength(words_by_len, L) ==
    IF L \in DOMAIN words_by_len THEN words_by_len[L] ELSE <<>>

\* all(cw[ch] <= budget[ch] for ch in cw)
FitsBudget(w, budget) == \A ch \in Range(w) : Counter(w)[ch] <= budget[ch]

\* Variant: a word must leave one of each of its letters in the budget.
FitsBudgetWithSpare(w, budget) == \A ch \in Range(w) : Counter(w)[ch] < budget[ch]

\* Variant: the filter demands a spare letter.
prefilter_with_spare(words_by_len, slots, budget) ==
    [sid \in {slots[i].id : i \in DOMAIN slots} |->
        LET s == CHOOSE x \in Range(slots) : x.id = sid
        IN  SelectSeq(PoolOfLength(words_by_len, s.length),
                      LAMBDA w : FitsBudgetWithSpare(w, budget))]

\* Variant: the pool of the slot's length, with no letter-count filter.
prefilter_by_length_only(words_by_len, slots, budget) ==
    [sid \in {slots[i].id : i \in DOMAIN slots} |->
        LET s == CHOOSE x \in Range(slots) : x.id = sid
        IN  PoolOfLength(words_by_len, s.length)]

prefilter_candidates(words_by_len, slots, budget) ==
    [sid \in {slots[i].id : i \in DOMAIN slots} |->
        LET s == CHOOSE x \in Range(slots) : x.id = sid
        IN  SelectSeq(PoolOfLength(words_by_len, s.length),
                      LAMBDA w : FitsBudget(w, budget))]

\* inter_count[s["id"]]
inter_count(intersections, sid) ==
    Cardinality({x \in DOMAIN intersections : intersections[x].slot_a = sid})
    + Cardinality({x \in DOMAIN intersections : intersections[x].slot_b = sid})

\* sorted(slots, key=(len(cand), -inter_count, length)): stable, ids returned.
order_slots(slots, cand, intersections) ==
    LET key(i) == <<Len(cand[slots[i].id]),
                    0 - inter_count(intersections, slots[i].id),
                    slots[i].length>>
        KeyLess(a, b) == \/ a[1] < b[1]
                         \/ a[1] = b[1] /\ a[2] < b[2]
                         \/ a[1] = b[1] /\ a[2] = b[2] /\ a[3] < b[3]
        IdxLess(i, j) == KeyLess(key(i), key(j))
        order == Sorted([i \in DOMAIN slots |-> i], IdxLess)
    IN  [p \in DOMAIN order |-> slots[order[p]].id]

\* touches of one slot, in the order of the crossing list.
Touches(slots, intersections, sid) ==
    LET by_id(id) == CHOOSE x \in Range(slots) : x.id = id
        mine == SelectSeq(intersections,
                          LAMBDA x : x.slot_a = sid \/ x.slot_b = sid)
    IN  [t \in DOMAIN mine |->
            IF mine[t].slot_a = sid
            THEN <<by_id(mine[t].slot_b).orient, by_id(mine[t].slot_b).length,
                   mine[t].pos_a>>
            ELSE <<by_id(mine[t].slot_a).orient, by_id(mine[t].slot_a).length,
                   mine[t].pos_b>>]

\* patterns[s["id"]] = (orient, length, tuple(sorted(touches)))
Pattern(slots, intersections, sid) ==
    LET s == CHOOSE x \in Range(slots) : x.id = sid
    IN  <<s.orient, s.length, Sorted(Touches(slots, intersections, sid), TouchLess)>>

\* Python's comparison of two tuples of touches.
RECURSIVE TouchesLessFrom(_, _, _)
TouchesLessFrom(u, v, i) ==
    IF i > Len(v) THEN FALSE
    ELSE IF i > Len(u) THEN TRUE
    ELSE IF TouchLess(u[i], v[i]) THEN TRUE
    ELSE IF TouchLess(v[i], u[i]) THEN FALSE
    ELSE TouchesLessFrom(u, v, i + 1)

\* The sort key of eq_classes: (orient, length, touches); the fourth key, the
\* id list, never decides because two classes never share a pattern.
PatternLess(p, q) ==
    \/ OrientLess(p[1], q[1])
    \/ p[1] = q[1] /\ p[2] < q[2]
    \/ p[1] = q[1] /\ p[2] = q[2] /\ TouchesLessFrom(p[3], q[3], 1)

\* sid_to_class: the index of the slot's class in the sorted class list.
slot_equivalence_classes(slots, intersections) ==
    LET sids == {slots[i].id : i \in DOMAIN slots}
        pat(sid) == Pattern(slots, intersections, sid)
        pats == {pat(sid) : sid \in sids}
    IN  [sid \in sids |->
            Cardinality({p \in pats : PatternLess(p, pat(sid))})]

\* cross[slot_id]: (other slot, position in this slot, position in the other).
cross(intersections, sid) ==
    LET mine == SelectSeq(intersections,
                          LAMBDA x : x.slot_a = sid \/ x.slot_b = sid)
    IN  [t \in DOMAIN mine |->
            IF mine[t].slot_a = sid
            THEN <<mine[t].slot_b, mine[t].pos_a, mine[t].pos_b>>
            ELSE <<mine[t].slot_a, mine[t].pos_b, mine[t].pos_a>>]

\* ------------------------------------------------------------------------
\* Inputs of find_solutions_for_grid
\* ------------------------------------------------------------------------

\* Dictionary words (upper-case A-Z, as load_dictionary yields them).
wABLE == <<"A", "B", "L", "E">>
wBOLE == <<"B", "O", "L", "E">>
wALERT == <<"A", "L", "E", "R", "T">>
wESTER == <<"E", "S", "T", "E", "R">>
wSTATE == <<"S", "T", "A", "T", "E">>
wTENSE == <<"T", "E", "N", "S", "E">>
wARES == <<"A", "R", "E", "S">>
wEATS == <<"E", "A", "T", "S">>
wSEAR == <<"S", "E", "A", "R">>
wTART == <<"T", "A", "R", "T">>
wTEST == <<"T", "E", "S", "T">>
wRESET == <<"R", "E", "S", "E", "T">>
wSLATE == <<"S", "L", "A", "T", "E">>
wSTARE == <<"S", "T", "A", "R", "E">>
wLATE == <<"L", "A", "T", "E">>
wREST == <<"R", "E", "S", "T">>
wSEAL == <<"S", "E", "A", "L">>
wTREE == <<"T", "R", "E", "E">>

\* One across and one down slot of length 4; the across slot's second cell
\* is the down slot's first cell.
CrossLayout == BuildSlots(4, << <<0, 4>> >>, (1 :> <<0, 4>>))

\* The 5 x 4 layout of family 2H3V that enumerate_layouts yields: across rows
\* 0 and 2 of length 5, down columns 0, 2, 4 over rows 0..3 (16 cells).
CombLayout ==
    BuildSlots(5, << <<0, 5>>, <<2, 5>> >>,
               (0 :> <<0, 4>>) @@ (2 :> <<0, 4>>) @@ (4 :> <<0, 4>>))

\* One across slot of length 4 on row 0 and two down slots of length 4 that
\* start at its two ends (10 cells); the down slots form one equivalence class.
TwinLayout ==
    BuildSlots(4, << <<0, 4>> >>, (0 :> <<0, 4>>) @@ (3 :> <<0, 4>>))

\* The calls modelled: a name to refer to the call by, its slots, the
\* dictionary buckets and the phrase letters.
Instances ==
    << [name |-> "able4", slots |-> CrossLayout, words_by_len |-> (4 :> <<wABLE, wBOLE>>),
        letters |-> <<"A", "B", "L", "E">>],
       [name |-> "able7", slots |-> CrossLayout, words_by_len |-> (4 :> <<wABLE, wBOLE>>),
        letters |-> <<"A", "B", "L", "E", "O", "L", "E">>],
       [name |-> "able8", slots |-> CrossLayout, words_by_len |-> (4 :> <<wABLE, wBOLE>>),
        letters |-> <<"A", "B", "L", "E", "O", "L", "E", "S">>],
       [name |-> "ableble", slots |-> CrossLayout, words_by_len |-> (4 :> <<wABLE, wBOLE>>),
        letters |-> <<"A", "B", "L", "E", "B", "L", "E">>],
       [name |-> "repeats", slots |-> CrossLayout, words_by_len |-> (4 :> <<wABLE, wABLE, wBOLE, wBOLE>>),
        letters |-> <<"A", "B", "L", "E", "O", "L", "E">>],
       [name |-> "comb_lost", slots |-> CombLayout,
        words_by_len |-> (5 :> <<wALERT, wESTER, wSTATE, wTENSE>>)
                         @@ (4 :> <<wARES, wEATS, wSEAR, wTART, wTEST>>),
        letters |-> <<"A", "L", "E", "R", "T", "E", "S", "T", "E", "R", "R", "S", "A", "S", "A", "T">>],
       [name |-> "comb_two", slots |-> CombLayout,
        words_by_len |-> (5 :> <<wRESET, wSLATE, wSTARE, wTENSE>>)
                         @@ (4 :> <<wLATE, wREST, wSEAL, wSEAR, wTREE>>),
        letters |-> <<"R", "E", "S", "E", "T", "S", "T", "A", "R", "E", "E", "T", "E", "L", "R", "E">>],
       [name |-> "twin_downs", slots |-> TwinLayout,
        words_by_len |-> (4 :> <<wTART, wTEST, wTREE>>),
        letters |-> <<"T", "A", "R", "T", "E", "S", "T", "R", "E", "E">>] >>

\* The locals find_solutions_for_grid derives once from its arguments.
Context(call) ==
    LET intersections == Intersections(call.slots)
        cand == prefilter_candidates(call.words_by_len, call.slots, Counter(call.letters))
    IN  [slots |-> call.slots,
         intersections |-> intersections,
         phrase_letters |-> call.letters,
         cand |-> cand,
         sid_to_class |-> slot_equivalence_classes(call.slots, intersections),
         ids |-> order_slots(call.slots, cand, intersections)]

Problem == [i \in DOMAIN Instances |-> Context(Instances[i])]

\* ------------------------------------------------------------------------
\* find_solutions_for_grid: the search state and its nested functions
\* ------------------------------------------------------------------------

by_id(P, slot_id) == CHOOSE x \in Range(P.slots) : x.id = slot_id

AllCells(P) == UNION {Range(P.slots[i].cells) : i \in DOMAIN P.slots}

\* d[k] = v  and  del d[k]  on a dict modelled as a function.
Put(d, k, v) == [x \in DOMAIN d \cup {k} |-> IF x = k THEN v ELSE d[x]]

Del(d, k) == [x \in DOMAIN d \ {k} |-> d[x]]

\* budget, cell_letter, cell_usage, sol, solutions, seen_signatures at entry.
InitialState(P) ==
    [budget |-> Counter(P.phrase_letters),
     cell_letter |-> <<>>,
     cell_usage |-> [c \in AllCells(P) |-> 0],
     sol |-> <<>>,
     solutions |-> <<>>,
     seen_signatures |-> {}]

\* tuple of (class index, sorted words of the class), by class index.
class_signature(P, current_sol) ==
    LET classes == SortedInts({P.sid_to_class[sid] : sid \in DOMAIN current_sol})
        bucket(c) == SelectSeq(P.ids, LAMBDA sid : sid \in DOMAIN current_sol
                                                   /\ P.sid_to_class[sid] = c)
        words(c) == [i \in DOMAIN bucket(c) |-> current_sol[bucket(c)[i]]]
    IN  [i \in DOMAIN classes |-> <<classes[i], Sorted(words(classes[i]), WordLess)>>]

\* Variant: the legality test never reads the letters already on the grid; it
\* keeps the symmetry-break and charges only unclaimed cells to the budget.
can_place_budget_only(P, st, slot_id, word) ==
    LET s == by_id(P, slot_id)
        cls == P.sid_to_class[slot_id]
        class_members == SelectSeq(P.ids, LAMBDA sid : P.sid_to_class[sid] = cls)
        me == CHOOSE i \in DOMAIN class_members : class_members[i] = slot_id
        need == [ch \in Letters |->
                    Cardinality({k \in DOMAIN s.cells :
                        s.cells[k] \notin DOMAIN st.cell_letter /\ word[k] = ch})]
    IN  /\ \A i \in 1..(me - 1) :
              ~(class_members[i] \in DOMAIN st.sol
                /\ WordLess(word, st.sol[class_members[i]]))
        /\ \A ch \in Letters : need[ch] > 0 => need[ch] <= st.budget[ch]

\* Variant: the symmetry-break within the equivalence class is missing.
can_place_any_class_order(P, st, slot_id, word) ==
    LET s == by_id(P, slot_id)
        xs == cross(P.intersections, slot_id)
        need == [ch \in Letters |->
                    Cardinality({k \in DOMAIN s.cells :
                        s.cells[k] \notin DOMAIN st.cell_letter /\ word[k] = ch})]
    IN  /\ \A t \in DOMAIN xs :
              ~(xs[t][1] \in DOMAIN st.sol
                /\ word[xs[t][2] + 1] # st.sol[xs[t][1]][xs[t][3] + 1])
        /\ \A k \in DOMAIN s.cells :
              s.cells[k] \in DOMAIN st.cell_letter
                 => st.cell_letter[s.cells[k]] = word[k]
        /\ \A ch \in Letters : need[ch] > 0 => need[ch] <= st.budget[ch]

can_place(P, st, slot_id, word) ==
    LET s == by_id(P, slot_id)
        cls == P.sid_to_class[slot_id]
        class_members == SelectSeq(P.ids, LAMBDA sid : P.sid_to_class[sid] = cls)
        me == CHOOSE i \in DOMAIN class_members : class_members[i] = slot_id
        xs == cross(P.intersections, slot_id)
        need == [ch \in Letters |->
                    Cardinality({k \in DOMAIN s.cells :
                        s.cells[k] \notin DOMAIN st.cell_letter /\ word[k] = ch})]
    IN  \* symmetry-break within the equivalence class
        /\ \A i \in 1..(me - 1) :
              ~(class_members[i] \in DOMAIN st.sol
                /\ WordLess(word, st.sol[class_members[i]]))
        \* crossing consistency
        /\ \A t \in DOMAIN xs :
              ~(xs[t][1] \in DOMAIN st.sol
                /\ word[xs[t][2] + 1] # st.sol[xs[t][1]][xs[t][3] + 1])
        \* claimed cells keep their letter
        /\ \A k \in DOMAIN s.cells :
              s.cells[k] \in DOMAIN st.cell_letter
                 => st.cell_letter[s.cells[k]] = word[k]
        \* per-slot need against the global budget
        /\ \A ch \in Letters : need[ch] > 0 => need[ch] <= st.budget[ch]

RECURSIVE place_cells(_, _, _, _)
place_cells(st, cells, word, k) ==
    IF k > Len(cells) THEN st
    ELSE LET cell == cells[k]
             ch == word[k]
             st1 == IF st.cell_usage[cell] = 0
                    THEN [st EXCEPT !.cell_letter = Put(@, cell, ch),
                                    !.budget[ch] = @ - 1]
                    ELSE st
         IN  place_cells([st1 EXCEPT !.cell_usage[cell] = @ + 1], cells, word, k + 1)

\* Variant: every cell of the slot is charged to the budget, shared or not.
place_charging_every_cell(P, st, slot_id, word) ==
    LET cells == by_id(P, slot_id).cells
        at(c) == CHOOSE k \in DOMAIN cells : cells[k] = c
    IN  [st EXCEPT
            !.budget = [ch \in Letters |->
                           @[ch] - Cardinality({k \in DOMAIN cells : word[k] = ch})],
            !.cell_letter = [c \in DOMAIN @ \cup Range(cells) |->
                                IF c \in DOMAIN @ THEN @[c] ELSE word[at(c)]],
            !.cell_usage = [c \in DOMAIN @ |->
                               IF c \in Range(cells) THEN @[c] + 1 ELSE @[c]],
            !.sol = Put(@, slot_id, word)]

place(P, st, slot_id, word) ==
    [place_cells(st, by_id(P, slot_id).cells, word, 1)
        EXCEPT !.sol = Put(@, slot_id, word)]

\* Variant: a released cell keeps its letter out of the budget.
unplace_without_refund(P, st, slot_id, word) ==
    LET cells == by_id(P, slot_id).cells
        after == [c \in DOMAIN st.cell_usage |->
                     st.cell_usage[c]
                     - Cardinality({k \in DOMAIN cells : cells[k] = c})]
    IN  [st EXCEPT !.cell_usage = after,
                   !.cell_letter = [c \in {d \in DOMAIN @ : after[d] > 0} |-> @[c]],
                   !.sol = Del(@, slot_id)]

RECURSIVE unplace_cells(_, _, _, _)
unplace_cells(st, cells, word, k) ==
    IF k > Len(cells) THEN st
    ELSE LET cell == cells[k]
             ch == word[k]
             st1 == [st EXCEPT !.cell_usage[cell] = @ - 1]
             st2 == IF st1.cell_usage[cell] = 0
                    THEN [st1 EXCEPT !.cell_letter = Del(@, cell),
                                     !.budget[ch] = @ + 1]
                    ELSE st1
         IN  unplace_cells(st2, cells, word, k + 1)

unplace(P, st, slot_id, word) ==
    [unplace_cells(st, by_id(P, slot_id).cells, word, 1)
        EXCEPT !.sol = Del(@, slot_id)]

\* Variant: leftover letters are accepted (the sum test is missing).
budget_nonnegative(budget) == \A ch \in Letters : budget[ch] >= 0

\* all(v >= 0 for v in budget.values()) and sum(budget.values()) == 0
budget_exact(budget) ==
    /\ \A ch \in Letters : budget[ch] >= 0
    /\ SumOver(budget, Letters) = 0

\* Variant: the goal is recorded without consulting seen_signatures.
record_goal_no_dedupe(P, st) ==
    IF budget_nonnegative(st.budget) /\ SumOver(st.budget, Letters) = 0
    THEN [st EXCEPT !.seen_signatures = @ \cup {class_signature(P, st.sol)},
                    !.solutions = Append(@, st.sol)]
    ELSE st

\* The body of  if idx == len(ids):  the goal test and the duplicate check.
record_goal(P, st) ==
    IF budget_exact(st.budget)
    THEN LET sig == class_signature(P, st.sol)
         IN  IF sig \notin st.seen_signatures
             THEN [st EXCEPT !.seen_signatures = @ \cup {sig},
                             !.solutions = Append(@, st.sol)]
             ELSE st
    ELSE st

\* ------------------------------------------------------------------------
\* enumerate_layouts and its structural validators
\* ------------------------------------------------------------------------

\* Concatenation of a sequence of sequences (the order of nested loops).
RECURSIVE Concat(_)
Concat(ss) ==
    IF Len(ss) = 0 THEN <<>>
    ELSE IF Len(ss) = 1 THEN ss[1]
    ELSE LET m == Len(ss) \div 2
         IN  Concat(SubSeq(ss, 1, m)) \o Concat(SubSeq(ss, m + 1, Len(ss)))

\* range(a, b)
RangeSeq(a, b) == [i \in 1..(b - a) |-> a + i - 1]

\* itertools.combinations(s, k), in its lexicographic order.
RECURSIVE combinations(_, _)
combinations(s, k) ==
    IF k = 0 THEN << <<>> >>
    ELSE IF Len(s) < k THEN <<>>
    ELSE LET incl == combinations(Tail(s), k - 1)
             excl == combinations(Tail(s), k)
         IN  [i \in DOMAIN incl |-> <<Head(s)>> \o incl[i]] \o excl

\* itertools.product(opts, repeat=n), last position varying fastest.
RECURSIVE product(_, _)
product(opts, n) ==
    IF n = 0 THEN << <<>> >>
    ELSE LET rest == product(opts, n - 1)
         IN  Concat([i \in DOMAIN opts |->
                        [j \in DOMAIN rest |-> <<opts[i]>> \o rest[j]]])

\* Variant: neighbouring indices are accepted (gap of 1 instead of 2).
nonadjacent_gap_one(indices) ==
    LET s == SortedInts(Range(indices))
    IN  \A i \in 1..(Len(s) - 1) : s[i + 1] - s[i] >= 1

\* all(s[i+1] - s[i] >= 2) over the sorted indices.
nonadjacent(indices) ==
    LET s == SortedInts(Range(indices))
    IN  \A i \in 1..(Len(s) - 1) : s[i + 1] - s[i] >= 2

\* Mirror units of columns; a unit is the sequence of its columns (a pair, or
\* the single centre column of an odd width).
symmetric_vertical_units(w) ==
    IF w = 4 THEN << <<0, 3>> >>
    ELSE IF w = 5 THEN << <<0, 4>>, <<1, 3>>, <<2>> >>
    ELSE IF w = 6 THEN << <<0, 5>>, <<1, 4>> >>
    ELSE IF w = 7 THEN << <<0, 6>>, <<1, 5>>, <<2, 4>>, <<3>> >>
    ELSE <<>>

expand_units_to_cols(choice) ==
    SortedInts(UNION {Range(choice[i]) : i \in DOMAIN choice})

\* [(s, L) for L in range(4, h+1) for s in range(0, h-L+1)]
vertical_segment_options(h) ==
    Concat([Li \in 1..(h - 3) |->
               [si \in 1..(h - (Li + 3) + 1) |-> <<si - 1, Li + 3>>]])

horizontal_lengths_allowed(w) ==
    IF w % 2 = 0
    THEN SelectSeq(RangeSeq(4, w + 1), LAMBDA L : L % 2 = 0)
    ELSE SelectSeq(RangeSeq(5, w + 1), LAMBDA L : L % 2 = 1)

\* Variant: connectivity reduced to the test that some cell is filled.
connected_nonempty(mask) ==
    \E r \in DOMAIN mask : \E c \in DOMAIN mask[r] : mask[r][c] = 1

\* The four steps of the breadth-first search, in the order the source tries them.
Dirs == << <<1, 0>>, <<0 - 1, 0>>, <<0, 1>>, <<0, 0 - 1>> >>

\* The while loop of connected: seen is the set of cells reached, dq the queue.
RECURSIVE bfs(_, _, _, _, _)
bfs(mask, h, w, seen, dq) ==
    IF dq = <<>> THEN seen
    ELSE LET r == dq[1][1]
             c == dq[1][2]
             step == [d \in DOMAIN Dirs |-> <<r + Dirs[d][1], c + Dirs[d][2]>>]
             fresh(n) == /\ 0 <= n[1] /\ n[1] < h /\ 0 <= n[2] /\ n[2] < w
                         /\ mask[n[1]][n[2]] = 1
                         /\ n \notin seen
             new == SelectSeq(step, fresh)
         IN  bfs(mask, h, w, seen \cup Range(new), Tail(dq) \o new)

\* mask is a function row -> (column -> 0 or 1), rows and columns from 0.
connected(mask) ==
    LET h == Cardinality(DOMAIN mask)
        w == Cardinality(DOMAIN mask[0])
        cells == SelectSeq([k \in 1..(h * w) |-> <<(k - 1) \div w, (k - 1) % w>>],
                           LAMBDA rc : mask[rc[1]][rc[2]] = 1)
    IN  IF cells = <<>> THEN FALSE
        ELSE Cardinality(bfs(mask, h, w, {cells[1]}, <<cells[1]>>)) = Len(cells)

is_plain_rectangle(w, h, h_rows_with_len, v_cols_with_seg) ==
    LET top_full == \E i \in DOMAIN h_rows_with_len :
                        h_rows_with_len[i][1] = 0 /\ h_rows_with_len[i][2] = w
        bot_full == \E i \in DOMAIN h_rows_with_len :
                        h_rows_with_len[i][1] = h - 1 /\ h_rows_with_len[i][2] = w
        left_full == 0 \in DOMAIN v_cols_with_seg /\ v_cols_with_seg[0] = <<0, h>>
        right_full == (w - 1) \in DOMAIN v_cols_with_seg
                      /\ v_cols_with_seg[w - 1] = <<0, h>>
    IN  top_full /\ bot_full /\ left_full /\ right_full

\* row_to_span[r] = (cs, ce); a later entry for the same row replaces an earlier one.
RowToSpan(h_rows_with_len, w) ==
    [r \in {h_rows_with_len[i][1] : i \in DOMAIN h_rows_with_len} |->
        LET last == CHOOSE i \in DOMAIN h_rows_with_len :
                        /\ h_rows_with_len[i][1] = r
                        /\ \A j \in DOMAIN h_rows_with_len :
                               h_rows_with_len[j][1] = r => j <= i
        IN  horizontal_segment_for_width(w, h_rows_with_len[last][2])]

\* Variant: only the crossing branch is tested; a column outside the across
\* span is never looked at.
slot_purity_crossing_only(h_rows_with_len, v_cols_with_seg, w) ==
    IF h_rows_with_len = <<>> /\ DOMAIN v_cols_with_seg = {} THEN FALSE
    ELSE LET row_to_span == RowToSpan(h_rows_with_len, w)
         IN  \A c \in DOMAIN v_cols_with_seg : \A r \in DOMAIN row_to_span :
                 LET s == v_cols_with_seg[c][1]
                     e == s + v_cols_with_seg[c][2] - 1
                     cs == row_to_span[r][1]
                     ce == row_to_span[r][2]
                 IN  (cs <= c /\ c <= ce) => (s <= r /\ r <= e)

slot_purity_ok(h_rows_with_len, v_cols_with_seg, w) ==
    IF h_rows_with_len = <<>> /\ DOMAIN v_cols_with_seg = {} THEN FALSE
    ELSE LET row_to_span == RowToSpan(h_rows_with_len, w)
         IN  \A c \in DOMAIN v_cols_with_seg : \A r \in DOMAIN row_to_span :
                 LET s == v_cols_with_seg[c][1]
                     e == s + v_cols_with_seg[c][2] - 1
                     cs == row_to_span[r][1]
                     ce == row_to_span[r][2]
                 IN  IF cs <= c /\ c <= ce
                     THEN s <= r /\ r <= e
                     ELSE ~(s <= r /\ r <= e)

\* The union of the slots' cells as a 0/1 grid of h rows and w columns.
BuildMask(w, h, h_rows_with_len, v_cols_with_seg) ==
    [r \in 0..(h - 1) |-> [c \in 0..(w - 1) |->
        IF \/ \E i \in DOMAIN h_rows_with_len :
                  /\ h_rows_with_len[i][1] = r
                  /\ horizontal_segment_for_width(w, h_rows_with_len[i][2])[1] <= c
                  /\ c <= horizontal_segment_for_width(w, h_rows_with_len[i][2])[2]
           \/ /\ c \in DOMAIN v_cols_with_seg
              /\ v_cols_with_seg[c][1] <= r
              /\ r < v_cols_with_seg[c][1] + v_cols_with_seg[c][2]
        THEN 1 ELSE 0]]

\* sum(sum(r) for r in mask)
MaskSum(mask) ==
    Cardinality({rc \in (DOMAIN mask) \X (DOMAIN mask[0]) : mask[rc[1]][rc[2]] = 1})

\* v_cols_with_seg after the loop over zip(v_choice, segs).
ColsWithSeg(v_choice, segs) ==
    [c \in UNION {Range(v_choice[i]) : i \in DOMAIN v_choice} |->
        segs[CHOOSE i \in DOMAIN v_choice :
                 /\ c \in Range(v_choice[i])
                 /\ \A j \in DOMAIN v_choice : c \in Range(v_choice[j]) => j <= i]]

\* The body of the innermost loop: the one-element list holding the layout
\* tuple when the candidate passes every test, the empty list otherwise.
Candidate(w, h, nH, nV, h_rows_with_len, v_cols_with_seg, min_int) ==
    IF nV # 0 /\ ~slot_purity_ok(h_rows_with_len, v_cols_with_seg, w) THEN <<>>
    ELSE LET mask == BuildMask(w, h, h_rows_with_len, v_cols_with_seg)
         IN  IF ~connected(mask) THEN <<>>
             ELSE IF is_plain_rectangle(w, h, h_rows_with_len, v_cols_with_seg)
             THEN <<>>
             ELSE LET slots == BuildSlots(w, h_rows_with_len, v_cols_with_seg)
                      inter == Intersections(slots)
                  IN  IF Len(inter) < min_int THEN <<>>
                      ELSE << [w |-> w, h |-> h, nH |-> nH, nV |-> nV,
                               h_rows_with_len |-> h_rows_with_len,
                               v_cols_with_seg |-> v_cols_with_seg,
                               mask |-> mask, filled |-> MaskSum(mask),
                               slots |-> slots, inter |-> inter] >>

\* Variant: the number of columns of a unit choice is not compared with nV.
UnitSubsets_any_count(units, nV) ==
    IF nV > 0
    THEN Concat([k \in 1..Len(units) |->
                    SelectSeq(combinations(units, k),
                              LAMBDA choice :
                                  nonadjacent(expand_units_to_cols(choice)))])
    ELSE << <<>> >>

\* unit_subsets: the unit choices giving exactly nV pairwise non-adjacent columns.
UnitSubsets(units, nV) ==
    IF nV > 0
    THEN Concat([k \in 1..Len(units) |->
                    SelectSeq(combinations(units, k),
                              LAMBDA choice :
                                  /\ Len(expand_units_to_cols(choice)) = nV
                                  /\ nonadjacent(expand_units_to_cols(choice)))])
    ELSE << <<>> >>

\* One pass of the loop over allowed_fams for a width and a height: the layouts
\* it appends, in order.
FamilyLayouts(w, h, nH, nV, min_int) ==
    LET units == symmetric_vertical_units(w)
        v_opts == vertical_segment_options(h)
        h_lens == horizontal_lengths_allowed(w)
        hrow_sets == SelectSeq(combinations(RangeSeq(0, h), nH), nonadjacent)
        unit_subsets == UnitSubsets(units, nV)
        h_len_combos == IF nH > 0 THEN product(h_lens, nH) ELSE << <<>> >>
        segsOf(v_choice) == product(v_opts, Len(v_choice))
    IN  IF units = <<>> \/ nH > h \/ hrow_sets = <<>> \/ unit_subsets = <<>>
        THEN <<>>
        ELSE Concat([ri \in DOMAIN hrow_sets |->
               Concat([li \in DOMAIN h_len_combos |->
                 Concat([vi \in DOMAIN unit_subsets |->
                   Concat([si \in DOMAIN segsOf(unit_subsets[vi]) |->
                     Candidate(w, h, nH, nV,
                         [i \in 1..nH |-> <<hrow_sets[ri][i], h_len_combos[li][i]>>],
                         ColsWithSeg(unit_subsets[vi], segsOf(unit_subsets[vi])[si]),
                         min_int)])])])])

\* The dedupe pass: a layout is kept unless an earlier one has the same mask.
RECURSIVE DedupeByMask(_)
DedupeByMask(lays) ==
    IF Len(lays) <= 1 THEN lays
    ELSE LET m == Len(lays) \div 2
             first == DedupeByMask(SubSeq(lays, 1, m))
             seen == {first[i].mask : i \in DOMAIN first}
             rest == DedupeByMask(SubSeq(lays, m + 1, Len(lays)))
         IN  first \o SelectSeq(rest, LAMBDA lay : lay.mask \notin seen)

\* ------------------------------------------------------------------------
\* enumerate_layouts: the loop bounds and the families
\* ------------------------------------------------------------------------

\* The widths and heights the enumeration walks through.
Widths == <<4, 5, 6, 7>>
Heights == <<4, 5, 6>>

\* Largest min_intersections tried.
MaxMinIntersections == 5

\* allowed_fams for a total word count; {} stands for the ValueError.
AllowedFams(tw) ==
    IF tw = 5 THEN {<<3, 2>>, <<2, 3>>, <<1, 4>>}
    ELSE IF tw = 6 THEN {<<3, 3>>, <<2, 4>>}
    ELSE {}

\* The orders in which a set may be iterated.
IterationOrders(S) ==
    {o \in [1..Cardinality(S) -> S] : \A i, j \in DOMAIN o : o[i] = o[j] => i = j}

\* ------------------------------------------------------------------------
\* Text, clean_phrase and the parsing of dictionary lines
\* ------------------------------------------------------------------------

\* Characters are strings: a letter, digit, blank or punctuation mark is the
\* string of that character; "e_acute" stands for the precomposed letter e
\* with acute accent, "combining_acute" for the combining mark it decomposes
\* to, "sharp_s" for the German sharp s.  A text is a sequence of characters.
UpperCase == <<"A", "B", "C", "D", "E", "F", "G", "H", "I", "J", "K", "L", "M",
               "N", "O", "P", "Q", "R", "S", "T", "U", "V", "W", "X", "Y", "Z">>

LowerCase == <<"a", "b", "c", "d", "e", "f", "g", "h", "i", "j", "k", "l", "m",
               "n", "o", "p", "q", "r", "s", "t", "u", "v", "w", "x", "y", "z">>

Digits == <<"0", "1", "2", "3", "4", "5", "6", "7", "8", "9">>

Whitespace == {" ", "\t", "\n"}

\* unicodedata.normalize("NFKD", ch) for one character.
NFKD(ch) == IF ch = "e_acute" THEN <<"e", "combining_acute">> ELSE <<ch>>

\* unicodedata.combining(ch) != 0
combining(ch) == ch = "combining_acute"

\* single_letter_map.get(ch, ch), for the characters in use.
single_letter_map(ch) == IF ch = "sharp_s" THEN "S" ELSE ch

\* str.upper() for one character.
upper(ch) ==
    IF ch \in Range(LowerCase)
    THEN UpperCase[CHOOSE i \in DOMAIN LowerCase : LowerCase[i] = ch]
    ELSE ch

clean_phrase(p) ==
    LET norm == Concat([i \in DOMAIN p |-> NFKD(p[i])])
        no_marks == SelectSeq(norm, LAMBDA ch : ~combining(ch))
        mapped == [i \in DOMAIN no_marks |-> single_letter_map(no_marks[i])]
        uppered == [i \in DOMAIN mapped |-> upper(mapped[i])]
    IN  SelectSeq(uppered, LAMBDA ch : ch \in Range(UpperCase))

\* str.strip()
strip(line) ==
    LET keep == {i \in DOMAIN line : line[i] \notin Whitespace}
    IN  IF keep = {} THEN <<>>
        ELSE SubSeq(line, CHOOSE i \in keep : \A j \in keep : i <= j,
                          CHOOSE i \in keep : \A j \in keep : j <= i)

\* str.isdigit()
isdigit(s) == s # <<>> /\ \A i \in DOMAIN s : s[i] \in Range(Digits)

\* int(s) for a string of digits.
RECURSIVE ParseInt(_)
ParseInt(s) ==
    IF s = <<>> THEN 0
    ELSE 10 * ParseInt(SubSeq(s, 1, Len(s) - 1))
         + (CHOOSE d \in DOMAIN Digits : Digits[d] = s[Len(s)]) - 1

\* The rating and the entry of a stripped, non-empty line; rating <<>> is None.
ParseLine(line) ==
    LET tabs == {i \in DOMAIN line : line[i] = "\t"}
    IN  IF tabs = {} THEN [rating |-> <<>>, entry |-> line]
        ELSE LET t == CHOOSE i \in tabs : \A j \in tabs : i <= j
                 left_stripped == strip(SubSeq(line, 1, t - 1))
                 right == SubSeq(line, t + 1, Len(line))
             IN  IF isdigit(left_stripped)
                    /\ 1 <= ParseInt(left_stripped)
                    /\ ParseInt(left_stripped) <= 10
                 THEN [rating |-> <<ParseInt(left_stripped)>>, entry |-> right]
                 ELSE [rating |-> <<>>, entry |-> line]

\* Variant: a rated entry is kept whatever its rating.
include_any_rating(rating, R) == rating = <<>> \/ rating[1] >= 1

\* include = (rating is None) or (rating >= min_rating)
include(rating, R) == rating = <<>> \/ rating[1] >= R

\* The update of best_by_cleaned for an included entry.
KeepBest(best, cleaned, rating) ==
    IF \A i \in DOMAIN best : best[i][1] # cleaned
    THEN Append(best, <<cleaned, rating>>)
    ELSE LET i == CHOOSE j \in DOMAIN best : best[j][1] = cleaned
             prev == best[i][2]
         IN  IF prev = <<>>
             THEN IF rating # <<>> THEN [best EXCEPT ![i][2] = rating] ELSE best
             ELSE IF rating # <<>> /\ rating[1] > prev[1]
                  THEN [best EXCEPT ![i][2] = rating]
                  ELSE best

\* consider_entry(raw) on the loader's counters and dict, held in a record.
consider_entry(ds, raw, R) ==
    LET line == strip(raw)
    IN  IF line = <<>> THEN ds
        ELSE LET parsed == ParseLine(line)
                 rating == parsed.rating
                 counted == IF rating = <<>>
                            THEN [ds EXCEPT !.parsed_unrated = @ + 1]
                            ELSE [ds EXCEPT !.parsed_rated = @ + 1]
                 cleaned == clean_phrase(parsed.entry)
             IN  IF cleaned = <<>> THEN counted
                 ELSE IF Len(cleaned) < 4 \/ Len(cleaned) > 7 THEN counted
                 ELSE IF ~include(rating, R) THEN counted
                 ELSE LET kept == [counted EXCEPT !.best_by_cleaned =
                                       KeepBest(@, cleaned, rating)]
                      IN  IF rating = <<>>
                          THEN [kept EXCEPT !.kept_unrated = @ + 1]
                          ELSE [kept EXCEPT !.kept_rated_ge_min = @ + 1]

\* The built-in pool used when the file is missing.
FallbackWords ==
    << <<"T", "I", "T", "L", "E">>,
       <<"T", "E", "N", "E", "T">>,
       <<"L", "E", "V", "E", "L">>,
       <<"L", "I", "L", "I", "T", "H">>,
       <<"D", "E", "N", "I", "E", "S">>,
       <<"G", "U", "S", "T", "Y">>,
       <<"G", "U", "T", "S", "Y">>,
       <<"T", "A", "T", "T", "Y">>,
       <<"A", "N", "Y", "H", "O", "W">>,
       <<"A", "N", "Y", "H", "O", "O">>,
       <<"W", "A", "N", "T">>,
       <<"W", "A", "N", "T", "S">> >>

\* best_by_cleaned[c] = None for every fallback word of length 4..7 (the
\* words are distinct).
FallbackPool ==
    LET cleaned == [i \in DOMAIN FallbackWords |-> clean_phrase(FallbackWords[i])]
        fits == SelectSeq(cleaned, LAMBDA c : 4 <= Len(c) /\ Len(c) <= 7)
    IN  [i \in DOMAIN fits |-> <<fits[i], <<>> >>]

\* by_len[len(w)].append(w) over the keys of best_by_cleaned, in their order.
BuildByLen(best) ==
    LET keys == [i \in DOMAIN best |-> best[i][1]]
    IN  [L \in {Len(keys[i]) : i \in DOMAIN keys} |->
            SelectSeq(keys, LAMBDA w : Len(w) = L)]

\* ------------------------------------------------------------------------
\* main: the calls it makes, as functions of their arguments
\* ------------------------------------------------------------------------

\* The values of --min_intersections modelled.
MinIntersectionsTried == {0}

\* The total word counts main asks for.
WordCountsTried == {6}

\* What one pass of  for w / for h / for (nH, nV)  appends, for every pass a
\* modelled run makes.
FamilyPasses ==
    [a \in UNION {{<<w, h, fam[1], fam[2], mi>> :
                      w \in Range(Widths), h \in Range(Heights),
                      fam \in AllowedFams(tw), mi \in MinIntersectionsTried}
                  : tw \in WordCountsTried} |->
        FamilyLayouts(a[1], a[2], a[3], a[4], a[5])]

\* enumerate_layouts(min_intersections, total_words), with the order in
\* which the set allowed_fams is iterated as a third argument: every pass
\* of  for w / for h / for (nH, nV),  then the dedupe by mask.
enumerate_layouts(min_int, tw, fams) ==
    LET nf == Len(fams)
        pass(b) ==
            LET w == Widths[(b \div (Len(Heights) * nf)) + 1]
                h == Heights[((b \div nf) % Len(Heights)) + 1]
                fam == fams[(b % nf) + 1]
            IN  FamilyPasses[<<w, h, fam[1], fam[2], min_int>>]
    IN  DedupeByMask(Concat([b \in 1..(Len(Widths) * Len(Heights) * nf) |->
                                pass(b - 1)]))

\* load_dictionary(path, min_rating): the file's lines through consider_entry,
\* or the fallback pool when the file is missing, then the buckets.
RECURSIVE ReadLines(_, _, _)
ReadLines(lines, n, R) ==
    IF n = 0
    THEN [parsed_rated |-> 0, parsed_unrated |-> 0, kept_rated_ge_min |-> 0,
          kept_unrated |-> 0, best_by_cleaned |-> <<>>]
    ELSE consider_entry(ReadLines(lines, n - 1, R), lines[n], R)

load_dictionary(lines, found, R) ==
    IF found THEN BuildByLen(ReadLines(lines, Len(lines), R).best_by_cleaned)
    ELSE BuildByLen(FallbackPool)

\* The dictionary file of the runs modelled.
MainDictFile ==
    << <<"b", "l", "o", "a", "t", "\n">>,
       <<"8", "\t", "B", "o", "l", "t", "s", "\n">>,
       <<"l", "e", "a", "r", "n", "\n">>,
       <<"o", "r", "a", "t", "e", "\n">>,
       <<"a", "l", "e", "\n">>,
       <<"s", "t", "e", "e", "r", "\n">>,
       <<"3", "\t", "t", "o", "n", "e", "r", "\n">>,
       <<"n", "e", "a", "r", "e", "s", "t", "\n">>,
       <<"r", "a", "t", "t", "l", "e", "s", "\n">>,
       <<"t", "e", "n", "s", "o", "r", "s", "\n">>,
       <<"e", "r", "a", "s", "e", "\n">>,
       <<"r", "a", "t", "e", "s", "\n">> >>

\* min_rating as main derives it from an empty answer to its first prompt.
PromptedMinRating == 1

\* words_by_len = load_dictionary(args.dict, min_rating)
MainWordsByLen == load_dictionary(MainDictFile, TRUE, PromptedMinRating)

\* The command lines modelled: --phrase and --words_mode.
Scenarios ==
    << [phrase |-> <<"b", "l", "o", "a", "t", " ", "l", "e", "a", "r", "n", " ", "s", "t", "e", "e", "r", " ", "o", "t", "t", "o", "e", "r">>,
        words_mode |-> "6"],
       [phrase |-> <<"N", "e", "a", "r", "e", "s", "t", " ", "r", "a", "t", "t", "l", "e", "s", ",", " ", "t", "e", "n", "s", "o", "r", "s", " ", "t", "e", "a", "s", "e", "r">>,
        words_mode |-> "6"],
       [phrase |-> <<"N", "e", "a", "r", "e", "s", "t", " ", "r", "a", "t", "t", "l", "e", "s", ",", " ", "t", "e", "n", "s", "o", "r", "s", " ", "t", "e", "a", "s", "e", "r", " ", "b", "e", "e">>,
        words_mode |-> "6"],
       [phrase |-> <<"1", "2", " ", "!">>,
        words_mode |-> "6"],
       [phrase |-> <<"A", "b", "l", "e">>,
        words_mode |-> "6"] >>

\* modes = [5, 6] if args.words_mode == "both" else [int(args.words_mode)]
modes(words_mode) ==
    IF words_mode = "both" THEN <<5, 6>>
    ELSE IF words_mode = "5" THEN <<5>>
    ELSE <<6>>

\* Every call of enumerate_layouts a modelled run can make, with its result.
EnumeratedArgs ==
    UNION {{<<mi, tw, o>> : mi \in MinIntersectionsTried,
                            o \in IterationOrders(AllowedFams(tw))}
           : tw \in WordCountsTried}

EnumeratedLayouts ==
    [a \in EnumeratedArgs |-> enumerate_layouts(a[1], a[2], a[3])]

\* A layout tuple is held by reference: <<total_words, place in the list that
\* enumerate_layouts returned>>.  The tuple a reference stands for, given the
\* run's min_intersections and iteration orders (orders[tw]).
LayoutOf(mi, orders, ref) ==
    EnumeratedLayouts[<<mi, ref[1], orders[ref[1]]>>][ref[2]]

\* The iteration orders a build can have: one per total word count in use.
OrdersFor(ms) ==
    {f \in [Range(ms) -> UNION {IterationOrders(AllowedFams(tw)) : tw \in Range(ms)}] :
        \A tw \in Range(ms) : f[tw] \in IterationOrders(AllowedFams(tw))}

\* layouts_all over the modes and the filter on the phrase length L
\* (lay[7] == L).
FitLayouts(ms, L, mi, orders) ==
    LET listed(tw) == EnumeratedLayouts[<<mi, tw, orders[tw]>>]
        layouts_all == Concat([m \in DOMAIN ms |->
                                  [i \in DOMAIN listed(ms[m]) |-> <<ms[m], i>>]])
    IN  SelectSeq(layouts_all,
                  LAMBDA ref : LayoutOf(mi, orders, ref).filled = L)

\* The dedupe across modes by mask: a layout is kept when no layout before it
\* in the list has its mask.
DedupeAcrossModes(mi, orders, fits) ==
    LET mask(ref) == LayoutOf(mi, orders, ref).mask
        first(ref) ==
            \E p \in DOMAIN fits :
                /\ fits[p] = ref
                /\ \A j \in 1..(p - 1) : mask(fits[j]) # mask(ref)
    IN  SelectSeq(fits, first)

\* layouts_all after the filter and the dedupe; fits is computed once.
FeasibleLayouts(ms, L, mi, orders) ==
    CHOOSE kept \in {DedupeAcrossModes(mi, orders, fits) :
                        fits \in {FitLayouts(ms, L, mi, orders)}} : TRUE

\* dup_cells = len({x["cell"] for x in intersections})
dup_cells(lay) == Cardinality({lay.inter[x].cell : x \in DOMAIN lay.inter})

\* random.Random(seed).shuffle(x), by the order it leaves x in: place i of
\* the result holds the element that was at place shuffled_order[i].  The
\* generator is CPython's Mersenne Twister; its output is tabulated for the
\* seeds in use and the lengths of the lists already shuffled (drawn) and of
\* the list at hand (n).
shuffled_order(seed, drawn, n) ==
    CASE n <= 1 -> [i \in 1..n |-> i]
      [] seed = 0 /\ drawn = <<>> /\ n = 5 -> <<3, 2, 1, 5, 4>>
      [] seed = 0 /\ drawn = <<>> /\ n = 11 -> <<9, 10, 2, 3, 6, 4, 8, 5, 1, 11, 7>>
      [] seed = 0 /\ drawn = <<11>> /\ n = 2 -> <<2, 1>>
      [] seed = 0 /\ drawn = <<>> /\ n = 9 -> <<8, 6, 2, 4, 5, 3, 1, 9, 7>>
      [] seed = 0 /\ drawn = <<9>> /\ n = 6 -> <<6, 1, 5, 2, 3, 4>>
      [] seed = 0 /\ drawn = <<>> /\ n = 6 -> <<5, 3, 2, 1, 6, 4>>
      [] seed = 0 /\ drawn = <<6>> /\ n = 9 -> <<9, 1, 6, 2, 8, 3, 4, 5, 7>>
      [] seed = 1 /\ drawn = <<>> /\ n = 5 -> <<3, 4, 5, 1, 2>>
      [] seed = 1 /\ drawn = <<>> /\ n = 11 -> <<7, 9, 11, 8, 6, 4, 1, 5, 2, 10, 3>>
      [] seed = 1 /\ drawn = <<11>> /\ n = 2 -> <<2, 1>>
      [] seed = 1 /\ drawn = <<>> /\ n = 9 -> <<6, 7, 8, 5, 4, 1, 9, 2, 3>>
      [] seed = 1 /\ drawn = <<9>> /\ n = 6 -> <<3, 6, 5, 4, 1, 2>>
      [] seed = 1 /\ drawn = <<>> /\ n = 6 -> <<3, 4, 6, 1, 5, 2>>
      [] seed = 1 /\ drawn = <<6>> /\ n = 9 -> <<3, 5, 1, 2, 7, 6, 4, 9, 8>>
      [] seed = 2 /\ drawn = <<>> /\ n = 5 -> <<3, 2, 4, 5, 1>>
      [] seed = 2 /\ drawn = <<>> /\ n = 11 -> <<8, 11, 4, 5, 3, 9, 7, 6, 10, 2, 1>>
      [] seed = 2 /\ drawn = <<11>> /\ n = 2 -> <<2, 1>>
      [] seed = 2 /\ drawn = <<>> /\ n = 9 -> <<4, 7, 5, 6, 8, 3, 9, 2, 1>>
      [] seed = 2 /\ drawn = <<9>> /\ n = 6 -> <<6, 3, 4, 2, 1, 5>>
      [] seed = 2 /\ drawn = <<>> /\ n = 6 -> <<3, 4, 2, 5, 6, 1>>
      [] seed = 2 /\ drawn = <<6>> /\ n = 9 -> <<6, 4, 3, 1, 7, 2, 8, 9, 5>>

shuffle(seed, drawn, x) ==
    LET order == shuffled_order(seed, drawn, Len(x))
    IN  [i \in DOMAIN x |-> x[order[i]]]

\* The keys of the dict buckets, in the order of their insertion.
bucket_keys(dups) ==
    LET firsts == SelectSeq([i \in DOMAIN dups |-> i],
                            LAMBDA i : \A j \in 1..(i - 1) : dups[j] # dups[i])
    IN  [k \in DOMAIN firsts |-> dups[firsts[k]]]

\* Variant: the keys are sorted in ascending order.
sorted_dups_ascending(keys) == SortedInts(Range(keys))

\* sorted(buckets.keys(), reverse=True)
sorted_dups(keys) ==
    LET up == SortedInts(Range(keys))
    IN  [p \in DOMAIN up |-> up[Len(up) + 1 - p]]

\* Lines 757-772: the buckets by dup_cells, each shuffled in the order of the
\* dict's keys with the one generator, then joined by descending key.
\* lays[i] has dups[i] distinct crossing cells.
rank_layouts(lays, dups, seed) ==
    LET keys == bucket_keys(dups)
        bucket(k) ==
            LET at == SelectSeq([i \in DOMAIN lays |-> i],
                                LAMBDA i : dups[i] = keys[k])
            IN  [n \in DOMAIN at |-> lays[at[n]]]
        shuffled(k) == shuffle(seed, [j \in 1..(k - 1) |-> Len(bucket(j))],
                               bucket(k))
        by_dup == sorted_dups(keys)
        key_of(d) == CHOOSE k \in DOMAIN keys : keys[k] = d
    IN  Concat([p \in DOMAIN by_dup |-> shuffled(key_of(by_dup[p]))])

\* The arguments main passes to find_solutions_for_grid for a layout of a
\* scenario, and what the call derives from them.
CallKeysOf(s) ==
    LET ms == modes(Scenarios[s].words_mode)
        L == Len(clean_phrase(Scenarios[s].phrase))
    IN  UNION {{<<s, mi, orders, ref>> :
                   ref \in Range(FeasibleLayouts(ms, L, mi, orders))}
               : mi \in MinIntersectionsTried, orders \in OrdersFor(ms)}

MainCallKeys == UNION {CallKeysOf(s) : s \in DOMAIN Scenarios}

\* The arguments slots and phrase_letters of the calls main makes.
MainSlots == [k \in MainCallKeys |-> LayoutOf(k[2], k[3], k[4]).slots]

MainLetters == [s \in DOMAIN Scenarios |-> clean_phrase(Scenarios[s].phrase)]

MainContext ==
    [k \in MainCallKeys |->
        Context([name |-> "main",
                 slots |-> MainSlots[k],
                 words_by_len |-> MainWordsByLen,
                 letters |-> MainLetters[k[1]]])]

\* ------------------------------------------------------------------------
\* find_solutions_for_grid as a state machine
\* ------------------------------------------------------------------------

\* Largest max_solutions tried, and the last clock reading modelled.
MaxSolutionsCap == 2
MaxClock == 2

\* per_grid_time: <<>> is None, <<n>> the number n (in clock ticks).
PerGridTimes == {<<>>, <<0 - 1>>, <<0>>, <<1>>}

VARIABLES
    inst,             \* which call: the index into Instances
    max_solutions,    \* argument max_solutions
    per_grid_time,    \* argument per_grid_time
    clock,            \* time.time() - start
    pc,               \* "enter" | "loop" | "try" | "return" | "done"
    stack,            \* per active dfs frame inside its for loop: the 1-based
                      \* index of the candidate the loop is at
    budget, cell_letter, cell_usage, sol, solutions, seen_signatures,
    placesAfterCutoff, \* history: calls of place made once the deadline had passed
    total_words,      \* enumerate_layouts: argument total_words
    min_intersections, \* enumerate_layouts: argument min_intersections
    allowed_fams,     \* the families <<nH, nV>> in the order the set is iterated
    epc,              \* "off" | "start" | "loops" | "done" | "raised"
    blk,              \* passes of the loop over (w, h, family) completed
    layouts,          \* the list under construction
    uniq,             \* the list returned
    dict_file,        \* load_dictionary: the file, a sequence of indices into SampleLines
    file_found,       \* whether open(path) succeeds
    min_rating,       \* argument min_rating
    dpc,              \* "off" | "read" | "buckets" | "done"
    total_lines, parsed_rated, parsed_unrated, kept_rated_ge_min, kept_unrated,
    best_by_cleaned,  \* the dict as its sequence of <<cleaned word, rating>> items
    by_len,           \* length -> list of cleaned words
    scenario,         \* main: the command line, an index into Scenarios
    max_grids,        \* args.max_grids
    solutions_per_grid, \* args.solutions_per_grid
    arg_per_grid_time, \* args.per_grid_time
    arg_min_intersections, \* args.min_intersections
    grid_seed,        \* args.grid_seed
    total_solutions_cap, \* args.total_solutions_cap
    global_cap,       \* the answer to the prompt for a total cap, as an int
    fam_orders,       \* total_words -> the order this build iterates allowed_fams in
    solver_call,      \* what the call main is in derives from its arguments
    mpc,              \* "off" | "start" | "enumerate" | "rank" | "loop" | "call" | "done"
    letters,          \* clean_phrase(phrase)
    main_layouts,     \* main's list layouts, as references
    ranked_layouts, selected,
    idx,              \* how many of selected the for loop has taken
    total_solutions, solved_count,
    report,           \* the grid blocks written: <<layout, number of solutions>>
    stopped_early,    \* the loop was left by its break
    run,              \* history: 1 in the first run of main, 2 in a second one
    first_run         \* history: max_grids, selected, ranked_layouts of the first run

solverVars == <<inst, max_solutions, per_grid_time, clock, pc, stack, budget,
                cell_letter, cell_usage, sol, solutions, seen_signatures,
                placesAfterCutoff>>

layoutVars == <<total_words, min_intersections, allowed_fams, epc, blk,
                layouts, uniq>>

dictVars == <<dict_file, file_found, min_rating, dpc, total_lines, parsed_rated,
              parsed_unrated, kept_rated_ge_min, kept_unrated, best_by_cleaned,
              by_len>>

mainVars == <<scenario, max_grids, solutions_per_grid, arg_per_grid_time,
              arg_min_intersections, grid_seed, total_solutions_cap, global_cap,
              fam_orders, solver_call, mpc, letters, main_layouts, ranked_layouts,
              selected, idx, total_solutions, solved_count, report,
              stopped_early, run, first_run>>

nonSolverVars == <<layoutVars, dictVars, mainVars>>

nonLayoutVars == <<solverVars, dictVars, mainVars>>

nonDictVars == <<solverVars, layoutVars, mainVars>>

vars == <<solverVars, layoutVars, dictVars, mainVars>>

\* What the call in progress derives from its arguments: those main passes
\* for the layout it is at, or those of the modelled call inst.
P ==
    IF mpc = "call" THEN solver_call ELSE Problem[inst]

St == [budget |-> budget, cell_letter |-> cell_letter, cell_usage |-> cell_usage,
       sol |-> sol, solutions |-> solutions, seen_signatures |-> seen_signatures]

SetSt(st) ==
    /\ budget' = st.budget
    /\ cell_letter' = st.cell_letter
    /\ cell_usage' = st.cell_usage
    /\ sol' = st.sol
    /\ solutions' = st.solutions
    /\ seen_signatures' = st.seen_signatures

\* Variant: the sign test of the time limit is inverted.
deadline_inverted(pgt) ==
    IF pgt # <<>> /\ pgt[1] # 0 /\ pgt[1] < 0 THEN <<0 + pgt[1]>> ELSE <<>>

\* deadline = (start + per_grid_time) if per_grid_time and per_grid_time > 0
\*            else float("inf");  <<>> is inf, start is clock reading 0.
deadline(pgt) ==
    IF pgt # <<>> /\ pgt[1] # 0 /\ pgt[1] > 0 THEN <<0 + pgt[1]>> ELSE <<>>

\* Variant: the clock is compared with == instead of >=.
time_up_exact(now, pgt) ==
    pgt # <<>> /\ pgt[1] # 0 /\ pgt[1] > 0 /\ now = 0 + pgt[1]

\* time.time() >= deadline
time_up(now, pgt) == deadline(pgt) # <<>> /\ now >= deadline(pgt)[1]

\* No call of enumerate_layouts is in progress.
LayoutIdle ==
    /\ total_words = 5
    /\ min_intersections = 0
    /\ allowed_fams = <<>>
    /\ epc = "off"
    /\ blk = 0
    /\ layouts = <<>>
    /\ uniq = <<>>

\* No call of load_dictionary is in progress.
DictIdle ==
    /\ dict_file = <<>>
    /\ file_found = TRUE
    /\ min_rating = 1
    /\ dpc = "off"
    /\ total_lines = 0
    /\ parsed_rated = 0
    /\ parsed_unrated = 0
    /\ kept_rated_ge_min = 0
    /\ kept_unrated = 0
    /\ best_by_cleaned = <<>>
    /\ by_len = <<>>

\* main is not running.
MainIdle ==
    /\ scenario = 1
    /\ max_grids = 0
    /\ solutions_per_grid = 0
    /\ arg_per_grid_time = <<0>>
    /\ arg_min_intersections = 0
    /\ grid_seed = 0
    /\ total_solutions_cap = 0
    /\ global_cap = 0
    /\ fam_orders = <<>>
    /\ solver_call = <<>>
    /\ mpc = "off"
    /\ letters = <<>>
    /\ main_layouts = <<>>
    /\ ranked_layouts = <<>>
    /\ selected = <<>>
    /\ idx = 0
    /\ total_solutions = 0
    /\ solved_count = 0
    /\ report = <<>>
    /\ stopped_early = FALSE
    /\ run = 1
    /\ first_run = <<>>

Init ==
    /\ MainIdle
    /\ inst \in DOMAIN Instances
    /\ max_solutions \in 0..MaxSolutionsCap
    /\ per_grid_time \in PerGridTimes
    /\ clock = 0
    /\ pc = "enter"
    /\ stack = <<>>
    /\ budget = InitialState(P).budget
    /\ cell_letter = InitialState(P).cell_letter
    /\ cell_usage = InitialState(P).cell_usage
    /\ sol = InitialState(P).sol
    /\ solutions = InitialState(P).solutions
    /\ seen_signatures = InitialState(P).seen_signatures
    /\ placesAfterCutoff = 0
    /\ LayoutIdle
    /\ DictIdle

\* The wall clock advances between any two steps of the search.
Tick ==
    /\ pc # "done"
    /\ clock < MaxClock
    /\ clock' = clock + 1
    /\ UNCHANGED <<inst, max_solutions, per_grid_time, pc, stack, budget,
                   cell_letter, cell_usage, sol, solutions, seen_signatures,
                   placesAfterCutoff>>
    /\ UNCHANGED nonSolverVars

\* dfs(idx) from its entry to the start of its for loop; idx = Len(stack).
DfsEnter ==
    /\ pc = "enter"
    /\ IF time_up(clock, per_grid_time) \/ Len(solutions) >= max_solutions
       THEN pc' = "return" /\ UNCHANGED <<stack, budget, cell_letter, cell_usage,
                                          sol, solutions, seen_signatures>>
       ELSE IF Len(stack) = Len(P.ids)
       THEN pc' = "return" /\ SetSt(record_goal(P, St)) /\ UNCHANGED stack
       ELSE pc' = "loop" /\ stack' = Append(stack, 1)
            /\ UNCHANGED <<budget, cell_letter, cell_usage, sol, solutions,
                           seen_signatures>>
    /\ UNCHANGED <<inst, max_solutions, per_grid_time, clock, placesAfterCutoff>>
    /\ UNCHANGED nonSolverVars

\* for w in cand[sid]:  if time.time() >= deadline: return
LoopHead ==
    /\ pc = "loop"
    /\ LET sid == P.ids[Len(stack)]
           k == stack[Len(stack)]
       IN  IF k > Len(P.cand[sid]) \/ time_up(clock, per_grid_time)
           THEN pc' = "return" /\ stack' = SubSeq(stack, 1, Len(stack) - 1)
           ELSE pc' = "try" /\ UNCHANGED stack
    /\ UNCHANGED <<inst, max_solutions, per_grid_time, clock, budget, cell_letter,
                   cell_usage, sol, solutions, seen_signatures, placesAfterCutoff>>
    /\ UNCHANGED nonSolverVars

\* if can_place(sid, w): place(sid, w); dfs(idx + 1)
TryPlace ==
    /\ pc = "try"
    /\ LET sid == P.ids[Len(stack)]
           k == stack[Len(stack)]
           w == P.cand[sid][k]
       IN  IF can_place(P, St, sid, w)
           THEN /\ SetSt(place(P, St, sid, w))
                /\ pc' = "enter"
                /\ placesAfterCutoff' =
                      IF per_grid_time # <<>> /\ per_grid_time[1] > 0
                         /\ clock >= per_grid_time[1]
                      THEN placesAfterCutoff + 1 ELSE placesAfterCutoff
                /\ UNCHANGED stack
           ELSE /\ pc' = "loop"
                /\ stack' = [stack EXCEPT ![Len(stack)] = k + 1]
                /\ UNCHANGED <<budget, cell_letter, cell_usage, sol, solutions,
                               seen_signatures, placesAfterCutoff>>
    /\ UNCHANGED <<inst, max_solutions, per_grid_time, clock>>
    /\ UNCHANGED nonSolverVars

\* Variant: after unplace only the deadline is tested, not the solution cap.
AfterCall_no_cap_test ==
    /\ pc = "return"
    /\ stack # <<>>
    /\ LET sid == P.ids[Len(stack)]
           k == stack[Len(stack)]
           w == P.cand[sid][k]
       IN  /\ SetSt(unplace(P, St, sid, w))
           /\ IF time_up(clock, per_grid_time)
              THEN pc' = "return" /\ stack' = SubSeq(stack, 1, Len(stack) - 1)
              ELSE pc' = "loop" /\ stack' = [stack EXCEPT ![Len(stack)] = k + 1]
    /\ UNCHANGED <<inst, max_solutions, per_grid_time, clock, placesAfterCutoff>>
    /\ UNCHANGED nonSolverVars

\* Back in the caller: unplace(sid, w), then the cap and deadline test.
AfterCall ==
    /\ pc = "return"
    /\ stack # <<>>
    /\ LET sid == P.ids[Len(stack)]
           k == stack[Len(stack)]
           w == P.cand[sid][k]
       IN  /\ SetSt(unplace(P, St, sid, w))
           /\ IF Len(solutions) >= max_solutions \/ time_up(clock, per_grid_time)
              THEN pc' = "return" /\ stack' = SubSeq(stack, 1, Len(stack) - 1)
              ELSE pc' = "loop" /\ stack' = [stack EXCEPT ![Len(stack)] = k + 1]
    /\ UNCHANGED <<inst, max_solutions, per_grid_time, clock, placesAfterCutoff>>
    /\ UNCHANGED nonSolverVars

\* dfs() has returned to find_solutions_for_grid:  return solutions
Finish ==
    /\ pc = "return"
    /\ stack = <<>>
    /\ pc' = "done"
    /\ UNCHANGED <<inst, max_solutions, per_grid_time, clock, stack, budget,
                   cell_letter, cell_usage, sol, solutions, seen_signatures,
                   placesAfterCutoff>>
    /\ UNCHANGED nonSolverVars

\* One step of the interpreter inside the call.
Step == DfsEnter \/ LoopHead \/ TryPlace \/ AfterCall \/ Finish

Next == Step \/ Tick

Spec == Init /\ [][Next]_vars

\* The interpreter keeps running the call; the clock owes nothing.
FairSpec == Spec /\ WF_vars(Step)

\* ------------------------------------------------------------------------
\* enumerate_layouts as a state machine
\* ------------------------------------------------------------------------

\* No call of find_solutions_for_grid is in progress.
SolverIdle ==
    /\ inst = 1
    /\ max_solutions = 0
    /\ per_grid_time = <<>>
    /\ clock = 0
    /\ pc = "done"
    /\ stack = <<>>
    /\ budget = InitialState(P).budget
    /\ cell_letter = InitialState(P).cell_letter
    /\ cell_usage = InitialState(P).cell_usage
    /\ sol = InitialState(P).sol
    /\ solutions = InitialState(P).solutions
    /\ seen_signatures = InitialState(P).seen_signatures
    /\ placesAfterCutoff = 0

LayoutInit ==
    /\ total_words \in {4, 5, 6}
    /\ min_intersections \in {0, MaxMinIntersections}
    /\ allowed_fams = <<>>
    /\ epc = "start"
    /\ blk = 0
    /\ layouts = <<>>
    /\ uniq = <<>>
    /\ MainIdle
    /\ SolverIdle
    /\ DictIdle

\* The choice of allowed_fams, or the ValueError for another total_words.
EnumStart ==
    /\ epc = "start"
    /\ IF AllowedFams(total_words) = {}
       THEN epc' = "raised" /\ UNCHANGED allowed_fams
       ELSE epc' = "loops"
            /\ allowed_fams' \in IterationOrders(AllowedFams(total_words))
    /\ UNCHANGED <<total_words, min_intersections, blk, layouts, uniq>>
    /\ UNCHANGED nonLayoutVars

\* One pass of  for w / for h / for (nH, nV) in allowed_fams.
EnumFamily ==
    /\ epc = "loops"
    /\ blk < Len(Widths) * Len(Heights) * Len(allowed_fams)
    /\ LET nf == Len(allowed_fams)
           w == Widths[(blk \div (Len(Heights) * nf)) + 1]
           h == Heights[((blk \div nf) % Len(Heights)) + 1]
           fam == allowed_fams[(blk % nf) + 1]
       IN  layouts' = layouts \o FamilyLayouts(w, h, fam[1], fam[2],
                                               min_intersections)
    /\ blk' = blk + 1
    /\ UNCHANGED <<total_words, min_intersections, allowed_fams, epc, uniq>>
    /\ UNCHANGED nonLayoutVars

\* The loops are over: dedupe by mask and return.
EnumReturn ==
    /\ epc = "loops"
    /\ blk = Len(Widths) * Len(Heights) * Len(allowed_fams)
    /\ uniq' = DedupeByMask(layouts)
    /\ epc' = "done"
    /\ UNCHANGED <<total_words, min_intersections, allowed_fams, blk, layouts>>
    /\ UNCHANGED nonLayoutVars

LayoutNext == EnumStart \/ EnumFamily \/ EnumReturn

LayoutSpec == LayoutInit /\ [][LayoutNext]_vars

\* ------------------------------------------------------------------------
\* clean_phrase and load_dictionary
\* ------------------------------------------------------------------------

\* The lines a modelled file is made of.
SampleLines ==
    << <<"9", "\t", "a", "b", "l", "e", "\n">>,
       <<"3", "\t", "A", "B", "L", "E", "\n">>,
       <<"a", "b", "l", "e", "\n">>,
       <<"3", "\t", "b", "-", "O", "l", " ", "e_acute", "\n">>,
       <<"1", "0", "\t", "b", "o", "l", "e", "\n">>,
       <<"9", "\t", "a", "l", "e", "\n">>,
       <<"n", "o", "t", "a", "b", "l", "e", "s", "\n">>,
       <<" ", "5", " ", "\t", "s", "t", "a", "b", "l", "e", "s", "\n">>,
       <<"\n">> >>

\* Longest file and the thresholds tried.
MaxLines == 3

MinRatings == {1, 4, 10}

RECURSIVE FilesUpTo(_)
FilesUpTo(n) ==
    IF n = 0 THEN {<<>>}
    ELSE FilesUpTo(n - 1)
         \cup {Append(f, i) : f \in {g \in FilesUpTo(n - 1) : Len(g) = n - 1},
                               i \in DOMAIN SampleLines}

DictInit ==
    /\ dict_file \in FilesUpTo(MaxLines)
    /\ file_found \in BOOLEAN
    /\ file_found = FALSE => dict_file = <<>>
    /\ min_rating \in MinRatings
    /\ dpc = "read"
    /\ total_lines = 0
    /\ parsed_rated = 0
    /\ parsed_unrated = 0
    /\ kept_rated_ge_min = 0
    /\ kept_unrated = 0
    /\ best_by_cleaned = <<>>
    /\ by_len = <<>>
    /\ MainIdle
    /\ SolverIdle
    /\ LayoutIdle

\* for raw in f: total_lines += 1; consider_entry(raw)
ConsiderLine ==
    /\ dpc = "read"
    /\ file_found
    /\ total_lines < Len(dict_file)
    /\ LET ds == consider_entry(
                    [parsed_rated |-> parsed_rated, parsed_unrated |-> parsed_unrated,
                     kept_rated_ge_min |-> kept_rated_ge_min,
                     kept_unrated |-> kept_unrated,
                     best_by_cleaned |-> best_by_cleaned],
                    SampleLines[dict_file[total_lines + 1]], min_rating)
       IN  /\ parsed_rated' = ds.parsed_rated
           /\ parsed_unrated' = ds.parsed_unrated
           /\ kept_rated_ge_min' = ds.kept_rated_ge_min
           /\ kept_unrated' = ds.kept_unrated
           /\ best_by_cleaned' = ds.best_by_cleaned
    /\ total_lines' = total_lines + 1
    /\ UNCHANGED <<dict_file, file_found, min_rating, dpc, by_len>>
    /\ UNCHANGED nonDictVars

\* except FileNotFoundError: the fallback pool
FileMissing ==
    /\ dpc = "read"
    /\ ~file_found
    /\ best_by_cleaned' = FallbackPool
    /\ dpc' = "buckets"
    /\ UNCHANGED <<dict_file, file_found, min_rating, total_lines, parsed_rated,
                   parsed_unrated, kept_rated_ge_min, kept_unrated, by_len>>
    /\ UNCHANGED nonDictVars

\* Build the by_len buckets and return them.
BuildBuckets ==
    /\ \/ dpc = "buckets"
       \/ dpc = "read" /\ file_found /\ total_lines = Len(dict_file)
    /\ by_len' = BuildByLen(best_by_cleaned)
    /\ dpc' = "done"
    /\ UNCHANGED <<dict_file, file_found, min_rating, total_lines, parsed_rated,
                   parsed_unrated, kept_rated_ge_min, kept_unrated,
                   best_by_cleaned>>
    /\ UNCHANGED nonDictVars

DictNext == ConsiderLine \/ FileMissing \/ BuildBuckets

DictSpec == DictInit /\ [][DictNext]_vars

\* ------------------------------------------------------------------------
\* main as a state machine
\* ------------------------------------------------------------------------

\* The option values and prompt answers tried.
MaxGridsTried == {0 - 1, 2, 6}
SolutionsPerGridTried == {1, 2}
PerGridTimesTried == {<<0>>}
GridSeedsTried == {0, 1}
TotalSolutionsCapsTried == {0, 3}
GlobalCapsTried == {0, 2, 3}

\* x[:k] for k >= 0
take(x, k) == SubSeq(x, 1, Min2(k, Len(x)))

\* The key of MainContext for a layout of the run.
CallKey(layout) == <<scenario, arg_min_intersections, fam_orders, layout>>

\* Variant: a layout is skipped only when every pool is empty.
every_pool_empty(cand) == \A sid \in DOMAIN cand : cand[sid] = <<>>

\* any(len(cand[s['id']]) == 0 for s in slots)
some_pool_empty(cand) == \E sid \in DOMAIN cand : cand[sid] = <<>>

\* Variant: the prompted cap is not applied to the next call.
grid_max_solutions_without_prompt_cap(spg, tcap, gcap, total) == spg

\* Lines 807-820: max_solutions for the next call.  The value reduced by
\* --total_solutions_cap (lines 807-812) is overwritten by line 815 before
\* the prompted cap is applied.
grid_max_solutions(spg, tcap, gcap, total) ==
    LET first == IF tcap # 0 /\ tcap > 0
                 THEN Min2(spg, IF tcap - total <= 0 THEN 0 ELSE tcap - total)
                 ELSE spg
        again == spg
    IN  IF gcap > 0
        THEN Min2(again, IF gcap - total <= 0 THEN 0 ELSE gcap - total)
        ELSE again

\* The solver's variables as a run of main finds them.
SolverAtRest ==
    /\ inst = 1
    /\ max_solutions = 0
    /\ per_grid_time = <<>>
    /\ clock = 0
    /\ pc = "done"
    /\ stack = <<>>
    /\ budget = InitialState(Problem[1]).budget
    /\ cell_letter = InitialState(Problem[1]).cell_letter
    /\ cell_usage = InitialState(Problem[1]).cell_usage
    /\ sol = InitialState(Problem[1]).sol
    /\ solutions = InitialState(Problem[1]).solutions
    /\ seen_signatures = InitialState(Problem[1]).seen_signatures
    /\ placesAfterCutoff = 0

\* The locals of main before its first statement.
MainLocalsFresh ==
    /\ mpc = "start"
    /\ solver_call = <<>>
    /\ letters = <<>>
    /\ main_layouts = <<>>
    /\ ranked_layouts = <<>>
    /\ selected = <<>>
    /\ idx = 0
    /\ total_solutions = 0
    /\ solved_count = 0
    /\ report = <<>>
    /\ stopped_early = FALSE

MainInit ==
    /\ scenario \in DOMAIN Scenarios
    /\ max_grids \in MaxGridsTried
    /\ solutions_per_grid \in SolutionsPerGridTried
    /\ arg_per_grid_time \in PerGridTimesTried
    /\ arg_min_intersections \in MinIntersectionsTried
    /\ grid_seed \in GridSeedsTried
    /\ total_solutions_cap \in TotalSolutionsCapsTried
    /\ global_cap \in GlobalCapsTried
    /\ fam_orders = <<>>
    /\ MainLocalsFresh
    /\ run = 1
    /\ first_run = <<>>
    /\ SolverAtRest
    /\ LayoutIdle
    /\ DictIdle

\* Lines 703-728: the prompts, clean_phrase, the exit when no letter is left.
MainStart ==
    /\ mpc = "start"
    /\ letters' = clean_phrase(Scenarios[scenario].phrase)
    /\ mpc' = IF letters' = <<>> THEN "done" ELSE "enumerate"
    /\ UNCHANGED <<solver_call, scenario, max_grids, solutions_per_grid, arg_per_grid_time,
                   arg_min_intersections, grid_seed, total_solutions_cap,
                   global_cap, fam_orders, main_layouts, ranked_layouts,
                   selected, idx, total_solutions, solved_count, report,
                   stopped_early, run, first_run>>
    /\ UNCHANGED <<solverVars, layoutVars, dictVars>>

\* Variant: the iteration order of allowed_fams is chosen afresh in every run.
MainEnumerate_any_order ==
    /\ mpc = "enumerate"
    /\ LET ms == modes(Scenarios[scenario].words_mode)
       IN  \E orders \in OrdersFor(ms) :
              /\ fam_orders' = orders
              /\ main_layouts' = FeasibleLayouts(ms, Len(letters),
                                                 arg_min_intersections, orders)
    /\ mpc' = IF main_layouts' = <<>> THEN "done" ELSE "rank"
    /\ UNCHANGED <<solver_call, scenario, max_grids, solutions_per_grid, arg_per_grid_time,
                   arg_min_intersections, grid_seed, total_solutions_cap,
                   global_cap, letters, ranked_layouts, selected, idx,
                   total_solutions, solved_count, report, stopped_early, run,
                   first_run>>
    /\ UNCHANGED <<solverVars, layoutVars, dictVars>>

\* Lines 735-755: enumerate per mode, filter on the phrase length, dedupe,
\* and the exit when no layout is left.  The iteration order of allowed_fams
\* is a property of the build: any order in the first run, the same one after.
MainEnumerate ==
    /\ mpc = "enumerate"
    /\ LET ms == modes(Scenarios[scenario].words_mode)
       IN  \E orders \in (IF run = 1 THEN OrdersFor(ms) ELSE {fam_orders}) :
              /\ fam_orders' = orders
              /\ main_layouts' = FeasibleLayouts(ms, Len(letters),
                                                 arg_min_intersections, orders)
    /\ mpc' = IF main_layouts' = <<>> THEN "done" ELSE "rank"
    /\ UNCHANGED <<solver_call, scenario, max_grids, solutions_per_grid, arg_per_grid_time,
                   arg_min_intersections, grid_seed, total_solutions_cap,
                   global_cap, letters, ranked_layouts, selected, idx,
                   total_solutions, solved_count, report, stopped_early, run,
                   first_run>>
    /\ UNCHANGED <<solverVars, layoutVars, dictVars>>

\* Lines 757-788: the ranking, the selection of the top k, the counters.
MainRank ==
    /\ mpc = "rank"
    /\ LET dups == [i \in DOMAIN main_layouts |->
                       dup_cells(LayoutOf(arg_min_intersections, fam_orders,
                                          main_layouts[i]))]
           k == IF max_grids > 0 THEN max_grids ELSE 0
       IN  /\ ranked_layouts' = rank_layouts(main_layouts, dups, grid_seed)
           /\ selected' = take(ranked_layouts', k)
    /\ first_run' = IF run = 1 THEN <<max_grids, selected', ranked_layouts'>>
                    ELSE first_run
    /\ idx' = 0
    /\ solved_count' = 0
    /\ total_solutions' = 0
    /\ report' = <<>>
    /\ mpc' = "loop"
    /\ UNCHANGED <<solver_call, scenario, max_grids, solutions_per_grid, arg_per_grid_time,
                   arg_min_intersections, grid_seed, total_solutions_cap,
                   global_cap, fam_orders, letters, main_layouts, stopped_early,
                   run>>
    /\ UNCHANGED <<solverVars, layoutVars, dictVars>>

\* Lines 790-827: the next selected layout, if any; its candidate pools; the
\* skip when a pool is empty, else the call of find_solutions_for_grid.
MainLoop ==
    /\ mpc = "loop"
    /\ IF idx = Len(selected)
       THEN /\ mpc' = "done"
            /\ UNCHANGED <<idx, report, solver_call, solverVars>>
       ELSE LET layout == selected[idx + 1]
                ctx == MainContext[CallKey(layout)]
            IN  /\ idx' = idx + 1
                /\ IF some_pool_empty(ctx.cand)
                   THEN /\ report' = Append(report, <<layout, 0>>)
                        /\ mpc' = "loop"
                        /\ UNCHANGED <<solver_call, solverVars>>
                   ELSE /\ mpc' = "call"
                        /\ solver_call' = ctx
                        /\ max_solutions' =
                              grid_max_solutions(solutions_per_grid,
                                                 total_solutions_cap, global_cap,
                                                 total_solutions)
                        /\ per_grid_time' = arg_per_grid_time
                        /\ clock' = 0
                        /\ pc' = "enter"
                        /\ stack' = <<>>
                        /\ SetSt(InitialState(ctx))
                        /\ placesAfterCutoff' = 0
                        /\ UNCHANGED <<inst, report>>
    /\ UNCHANGED <<scenario, max_grids, solutions_per_grid, arg_per_grid_time,
                   arg_min_intersections, grid_seed, total_solutions_cap,
                   global_cap, fam_orders, letters, main_layouts, ranked_layouts,
                   selected, total_solutions, solved_count, stopped_early, run,
                   first_run>>
    /\ UNCHANGED <<layoutVars, dictVars>>

\* Lines 828-843: the call has returned; the counters, the grid block, and
\* the break once --total_solutions_cap is reached.
MainAfterCall ==
    /\ mpc = "call"
    /\ pc = "done"
    /\ LET n == Len(solutions)
       IN  /\ solved_count' = IF n > 0 THEN solved_count + 1 ELSE solved_count
           /\ total_solutions' = total_solutions + n
           /\ report' = Append(report, <<selected[idx], n>>)
    /\ solver_call' = <<>>
    /\ IF total_solutions_cap # 0 /\ total_solutions_cap > 0
          /\ total_solutions' >= total_solutions_cap
       THEN mpc' = "done" /\ stopped_early' = TRUE
       ELSE mpc' = "loop" /\ UNCHANGED stopped_early
    /\ UNCHANGED <<scenario, max_grids, solutions_per_grid, arg_per_grid_time,
                   arg_min_intersections, grid_seed, total_solutions_cap,
                   global_cap, fam_orders, letters, main_layouts, ranked_layouts,
                   selected, idx, run, first_run>>
    /\ UNCHANGED <<solverVars, layoutVars, dictVars>>

\* The program is started a second time on the same phrase, mode,
\* min_intersections and seed, with --max_grids chosen anew.
RunAgain ==
    /\ mpc = "done"
    /\ run = 1
    /\ run' = 2
    /\ max_grids' \in MaxGridsTried
    /\ mpc' = "start"
    /\ solver_call' = <<>>
    /\ letters' = <<>>
    /\ main_layouts' = <<>>
    /\ ranked_layouts' = <<>>
    /\ selected' = <<>>
    /\ idx' = 0
    /\ total_solutions' = 0
    /\ solved_count' = 0
    /\ report' = <<>>
    /\ stopped_early' = FALSE
    /\ max_solutions' = 0
    /\ per_grid_time' = <<>>
    /\ clock' = 0
    /\ pc' = "done"
    /\ stack' = <<>>
    /\ SetSt(InitialState(Problem[1]))
    /\ placesAfterCutoff' = 0
    /\ UNCHANGED inst
    /\ UNCHANGED <<scenario, solutions_per_grid, arg_per_grid_time,
                   arg_min_intersections, grid_seed, total_solutions_cap,
                   global_cap, fam_orders, first_run>>
    /\ UNCHANGED <<layoutVars, dictVars>>

MainStep == MainStart \/ MainEnumerate \/ MainRank \/ MainLoop \/ MainAfterCall

MainNext == MainStep \/ Step \/ Tick

MainSpec == MainInit /\ [][MainNext]_vars

\* Two runs in a row: the first with one solution per grid, --total_solutions_cap
\* at its default 0 and the prompt for a total cap answered with Enter.
RerunInit ==
    /\ MainInit
    /\ solutions_per_grid = 1
    /\ total_solutions_cap = 0
    /\ global_cap = 0

RerunNext == MainNext \/ RunAgain

RerunSpec == RerunInit /\ [][RerunNext]_vars

\* ------------------------------------------------------------------------
\* What the properties speak about
\* ------------------------------------------------------------------------

IsPrefix(s, t) == Len(s) <= Len(t) /\ \A i \in DOMAIN s : s[i] = t[i]

SlotIds(Q) == {Q.slots[i].id : i \in DOMAIN Q.slots}

\* The letters an assignment writes into a cell, one per slot through the cell.
LettersAt(Q, a, cell) ==
    UNION {{a[slot.id][k] : k \in {n \in DOMAIN slot.cells : slot.cells[n] = cell}} :
              slot \in Range(Q.slots)}

\* Each cell counted once: the number of cells that hold letter ch.
CellsHolding(Q, a, ch) == Cardinality({c \in AllCells(Q) : ch \in LettersAt(Q, a, c)})

Complete(Q, a) == DOMAIN a = SlotIds(Q)

UsesPhraseExactly(Q, a) ==
    /\ Complete(Q, a)
    /\ \A ch \in Letters : CellsHolding(Q, a, ch) = Counter(Q.phrase_letters)[ch]

CrossingsAgree(Q, a) ==
    /\ Complete(Q, a)
    /\ \A x \in DOMAIN Q.intersections :
          LET r == Q.intersections[x]
          IN  a[r.slot_a][r.pos_a + 1] = a[r.slot_b][r.pos_b + 1]

\* Every complete assignment of pool words to slots.
RECURSIVE AssignmentsUpTo(_, _)
AssignmentsUpTo(Q, n) ==
    IF n = 0 THEN {<<>>}
    ELSE {Put(a, Q.slots[n].id, w) :
             a \in AssignmentsUpTo(Q, n - 1), w \in Range(Q.cand[Q.slots[n].id])}

\* Those with consistent crossings that use the letter budget exactly.
ValidAssignmentsOf ==
    [i \in DOMAIN Instances |->
        {a \in AssignmentsUpTo(Problem[i], Len(Problem[i].slots)) :
            CrossingsAgree(Problem[i], a) /\ UsesPhraseExactly(Problem[i], a)}]

\* Per equivalence class, the multiset of the words of its slots.
ClassWords(Q, a) ==
    [c \in {Q.sid_to_class[sid] : sid \in SlotIds(Q)} |->
        [w \in {a[sid] : sid \in DOMAIN a} |->
            Cardinality({sid \in DOMAIN a : Q.sid_to_class[sid] = c /\ a[sid] = w})]]

\* An assignment keeps the order the symmetry-break imposes: along the visit
\* order, the words of the slots of one class never decrease.
KeepsClassOrder(Q, a) ==
    \A p, q \in DOMAIN Q.ids :
        p < q /\ Q.sid_to_class[Q.ids[p]] = Q.sid_to_class[Q.ids[q]]
            => ~WordLess(a[Q.ids[q]], a[Q.ids[p]])

\* Where the search meets an assignment: per slot in visit order, the first
\* index of its word in the slot's pool.
VisitKey(Q, a) ==
    [p \in DOMAIN Q.ids |->
        CHOOSE k \in DOMAIN Q.cand[Q.ids[p]] :
            /\ Q.cand[Q.ids[p]][k] = a[Q.ids[p]]
            /\ \A j \in 1..(k - 1) : Q.cand[Q.ids[p]][j] # a[Q.ids[p]]]

KeyBefore(u, v) ==
    \E p \in DOMAIN u : u[p] < v[p] /\ \A q \in 1..(p - 1) : u[q] = v[q]

\* The valid assignments that keep the class order, in the order a
\* depth-first walk over the pools in visit order meets them.
SearchOrder ==
    [i \in DOMAIN Instances |->
        LET Q == Problem[i]
            S == {a \in ValidAssignmentsOf[i] : KeepsClassOrder(Q, a)}
        IN  [n \in 1..Cardinality(S) |->
                CHOOSE a \in S :
                    Cardinality({b \in S : KeyBefore(VisitKey(Q, b), VisitKey(Q, a))})
                        = n - 1]]

\* What the call returns when the deadline never stops it: the first
\* max_solutions entries of the search order.
NoDeadlineResult ==
    [i \in DOMAIN Instances |->
        [m \in 0..MaxSolutionsCap |->
            SubSeq(SearchOrder[i], 1, Min2(m, Len(SearchOrder[i])))]]

Returned == pc = "done"

\* The deadline is finite and the clock has reached it.
CutoffPassed ==
    per_grid_time # <<>> /\ per_grid_time[1] > 0 /\ clock >= per_grid_time[1]

\* The time limit is None, zero or negative.
NoDeadline == per_grid_time = <<>> \/ per_grid_time[1] <= 0

AllPoolsNonEmpty == \A sid \in SlotIds(P) : P.cand[sid] # <<>>

\* ------------------------------------------------------------------------
\* Properties
\* ------------------------------------------------------------------------

\* C1: in every solution of the returned list the letters of the filled cells,
\* each cell taken once however many slots cross it, are exactly the multiset
\* of the phrase's letters.
C1_LettersExact ==
    \A i \in DOMAIN solutions : UsesPhraseExactly(P, solutions[i])

C1_Witness ==
    /\ Returned
    /\ Len(solutions) = 2
    /\ P.intersections # <<>>

\* C2: in every solution of the returned list, for every crossing record
\* (slot_a, pos_a, slot_b, pos_b) the two words carry the same letter there.
C2_CrossingsAgree ==
    \A i \in DOMAIN solutions : CrossingsAgree(P, solutions[i])

C2_Witness ==
    /\ Returned
    /\ solutions # <<>>
    /\ Len(P.intersections) > 1

\* C3: no two entries of the returned list have the same signature, the
\* signature being, per slot equivalence class, the multiset (sorted tuple) of
\* the words assigned to the class's slots.
C3_UniqueSignatures ==
    \A i, j \in DOMAIN solutions :
        i # j => ClassWords(P, solutions[i]) # ClassWords(P, solutions[j])

C3_Witness ==
    /\ Returned
    /\ Len(solutions) > 1
    /\ seen_signatures # {}

\* C4: the list never holds more than max_solutions entries, and from a state
\* in which it holds max_solutions entries no step assigns a word to a slot.
C4_CapRespected ==
    /\ [](Len(solutions) <= max_solutions)
    /\ [][Len(solutions) >= max_solutions => DOMAIN sol' \subseteq DOMAIN sol]_vars

C4_Witness ==
    /\ max_solutions > 0
    /\ Len(solutions) = max_solutions
    /\ pc = "return"
    /\ Len(stack) > 1

\* C5: the list is at every moment, and so when the call returns after the
\* deadline stopped it, a prefix of what the same call returns with no
\* deadline; a call the deadline never stopped returns exactly that list.
C5_TimeoutPrefix ==
    /\ IsPrefix(solutions, NoDeadlineResult[inst][max_solutions])
    /\ Returned /\ ~CutoffPassed
          => solutions = NoDeadlineResult[inst][max_solutions]

C5_Witness ==
    /\ Returned
    /\ CutoffPassed
    /\ solutions # <<>>
    /\ Len(solutions) < Len(NoDeadlineResult[inst][max_solutions])

\* C6: with a time limit that runs out, at most one place is performed after
\* the cutoff, every solution in the list is a valid one, and the call returns.
C6_BoundedOverrun ==
    /\ [](placesAfterCutoff <= 1)
    /\ [](\A i \in DOMAIN solutions : solutions[i] \in ValidAssignmentsOf[inst])
    /\ [](CutoffPassed => <>Returned)

C6_Witness ==
    /\ Returned
    /\ placesAfterCutoff = 1

\* C7: the call always returns, whatever the deadline; and when every slot has
\* a non-empty pool but no combination is valid it returns the empty list.
C7_Terminates ==
    /\ <>Returned
    /\ [](Returned /\ AllPoolsNonEmpty /\ ValidAssignmentsOf[inst] = {}
             => solutions = <<>>)

C7_Witness ==
    /\ Returned
    /\ AllPoolsNonEmpty
    /\ ValidAssignmentsOf[inst] = {}
    /\ max_solutions > 0
    /\ NoDeadline
    /\ solutions = <<>>

\* C8 (as stated): dictionary {ABLE, BOLE}, phrase letters A,B,L,E, one across
\* and one down slot crossing at the cell that holds B: exactly one solution,
\* ABLE across and BOLE down, using the phrase's letters with no remainder.
C8_AsClaimed ==
    Instances[inst].name = "able4" /\ Returned /\ ~CutoffPassed /\ max_solutions > 0
        => /\ solutions = << (<<"H", 0, 0, 3>> :> wABLE) @@ (<<"V", 1, 0, 3>> :> wBOLE) >>
           /\ UsesPhraseExactly(P, solutions[1])

\* C8 (amended): with the seven letters A,B,E,E,L,L,O of the layout's seven
\* cells the one solution is ABLE across, BOLE down, with no letter left; no
\* state of the search holds a pairing whose crossing letters disagree; with
\* only the letters A,B,L,E the prefilter leaves ABLE alone in both pools and
\* no solution is accepted.
C8_Amended ==
    /\ Instances[inst].name = "able7" /\ Returned /\ ~CutoffPassed /\ max_solutions > 0
          => /\ solutions = << (<<"H", 0, 0, 3>> :> wABLE) @@ (<<"V", 1, 0, 3>> :> wBOLE) >>
             /\ UsesPhraseExactly(P, solutions[1])
    /\ Instances[inst].name \in {"able4", "able7"} /\ Complete(P, sol)
          => sol[<<"H", 0, 0, 3>>][2] = sol[<<"V", 1, 0, 3>>][1]
    /\ Instances[inst].name = "able4"
          => /\ P.cand = (<<"H", 0, 0, 3>> :> <<wABLE>>) @@ (<<"V", 1, 0, 3>> :> <<wABLE>>)
             /\ solutions = <<>>

C8_Witness ==
    /\ Instances[inst].name = "able7"
    /\ Returned
    /\ ~CutoffPassed
    /\ Len(solutions) = 1

\* C9 (as stated): run to the end with no deadline and the cap not reached,
\* the returned list holds, for every valid complete assignment, a solution
\* with the same per-class multiset of words.
C9_NoSolutionLost ==
    Returned /\ NoDeadline /\ Len(solutions) < max_solutions
        => \A a \in ValidAssignmentsOf[inst] :
              \E i \in DOMAIN solutions :
                  ClassWords(P, solutions[i]) = ClassWords(P, a)

\* ------------------------------------------------------------------------
\* Properties of enumerate_layouts
\* ------------------------------------------------------------------------

FilledCells(mask) ==
    {rc \in (DOMAIN mask) \X (DOMAIN mask[0]) : mask[rc[1]][rc[2]] = 1}

\* Horizontally or vertically adjacent cells.
Adjacent4(a, b) ==
    \/ a[1] = b[1] /\ (a[2] - b[2] = 1 \/ b[2] - a[2] = 1)
    \/ a[2] = b[2] /\ (a[1] - b[1] = 1 \/ b[1] - a[1] = 1)

\* The cells of F joined to a cell of R by a path of adjacent cells of F.
RECURSIVE JoinedTo(_, _)
JoinedTo(F, R) ==
    LET more == {b \in F \ R : \E a \in R : Adjacent4(a, b)}
    IN  IF more = {} THEN R ELSE JoinedTo(F, R \cup more)

\* Any two filled cells are joined by a path; being joined is symmetric and
\* transitive, so it is enough that every filled cell is joined to one of them.
FourConnected(mask) ==
    LET F == FilledCells(mask)
    IN  F = {} \/ JoinedTo(F, {CHOOSE a \in F : TRUE}) = F

EnumReturned == epc = "done"

\* C10: every layout returned by enumerate_layouts has a 4-connected mask:
\* any two filled cells are joined by a path of filled cells moving only
\* between horizontally or vertically adjacent cells.
C10_MaskConnected ==
    \A i \in DOMAIN uniq : FourConnected(uniq[i].mask)

\* A call has returned layouts, one of them with two filled cells that are
\* not adjacent and so need a path.
C10_Witness ==
    /\ EnumReturned
    /\ \E i \in DOMAIN uniq :
           \E a, b \in FilledCells(uniq[i].mask) : a # b /\ ~Adjacent4(a, b)

AcrossSlots(lay) == {i \in DOMAIN lay.slots : lay.slots[i].orient = "H"}

DownSlots(lay) == {i \in DOMAIN lay.slots : lay.slots[i].orient = "V"}

\* The row of an across slot, the column of a down slot.
RowOf(slot) == slot.cells[1][1]

ColOf(slot) == slot.cells[1][2]

\* C11: every layout returned by enumerate_layouts is left-right symmetric:
\* cell (r, c) is filled if and only if cell (r, width-1-c) is filled.
C11_MirrorSymmetric ==
    \A i \in DOMAIN uniq :
        \A r \in 0..(uniq[i].h - 1) : \A c \in 0..(uniq[i].w - 1) :
            uniq[i].mask[r][c] = 1 <=> uniq[i].mask[r][uniq[i].w - 1 - c] = 1

\* A returned layout with an across slot shorter than the grid is wide, so
\* that the centring of the span decides the symmetry.
C11_Witness ==
    /\ EnumReturned
    /\ \E i \in DOMAIN uniq : \E k \in AcrossSlots(uniq[i]) :
           uniq[i].slots[k].length < uniq[i].w

\* C12: in every returned layout no two across slots lie on adjacent rows and
\* no two down slots on adjacent columns: the indices differ pairwise by 2 or more.
C12_NoAdjacentSlots ==
    \A i \in DOMAIN uniq :
        /\ \A a, b \in AcrossSlots(uniq[i]) :
               a # b => \/ RowOf(uniq[i].slots[a]) - RowOf(uniq[i].slots[b]) >= 2
                        \/ RowOf(uniq[i].slots[b]) - RowOf(uniq[i].slots[a]) >= 2
        /\ \A a, b \in DownSlots(uniq[i]) :
               a # b => \/ ColOf(uniq[i].slots[a]) - ColOf(uniq[i].slots[b]) >= 2
                        \/ ColOf(uniq[i].slots[b]) - ColOf(uniq[i].slots[a]) >= 2

\* A returned layout with two across rows exactly 2 apart and two down
\* columns exactly 2 apart.
C12_Witness ==
    /\ EnumReturned
    /\ \E i \in DOMAIN uniq :
           /\ \E a, b \in AcrossSlots(uniq[i]) :
                  RowOf(uniq[i].slots[b]) - RowOf(uniq[i].slots[a]) = 2
           /\ \E a, b \in DownSlots(uniq[i]) :
                  ColOf(uniq[i].slots[b]) - ColOf(uniq[i].slots[a]) = 2

\* C13: purity holds in every returned layout: on a row that carries an across
\* slot every filled cell of the row lies inside the slot's span, and on a
\* column that carries a down slot every filled cell of the column lies inside
\* the slot's span.
C13_Purity ==
    \A i \in DOMAIN uniq :
        \A k \in DOMAIN uniq[i].slots : \A rc \in FilledCells(uniq[i].mask) :
            LET slot == uniq[i].slots[k]
            IN  /\ (slot.orient = "H" /\ rc[1] = RowOf(slot))
                       => rc \in Range(slot.cells)
                /\ (slot.orient = "V" /\ rc[2] = ColOf(slot))
                       => rc \in Range(slot.cells)

\* A returned layout with a down slot that stops short of an across row whose
\* span leaves that column free, and an across slot narrower than the grid.
C13_Witness ==
    /\ EnumReturned
    /\ \E i \in DOMAIN uniq :
           \E a \in AcrossSlots(uniq[i]) : \E d \in DownSlots(uniq[i]) :
               /\ uniq[i].slots[a].length < uniq[i].w
               /\ uniq[i].slots[d].length < uniq[i].h
               /\ uniq[i].mask[RowOf(uniq[i].slots[a])][ColOf(uniq[i].slots[d])] = 0

\* The (across, down) slot counts the documentation gives for a total.
FamiliesFor(tw) ==
    IF tw = 5 THEN {<<3, 2>>, <<2, 3>>, <<1, 4>>} ELSE {<<3, 3>>, <<2, 4>>}

\* C18: enumerate_layouts returns only layouts of the requested family: for
\* total_words=5 the (across, down) counts are (3,2), (2,3) or (1,4), for
\* total_words=6 they are (3,3) or (2,4), and the slot list has exactly that
\* many across and down slots.
C18_RequestedFamily ==
    \A i \in DOMAIN uniq :
        /\ total_words \in {5, 6}
        /\ <<uniq[i].nH, uniq[i].nV>> \in FamiliesFor(total_words)
        /\ Cardinality(AcrossSlots(uniq[i])) = uniq[i].nH
        /\ Cardinality(DownSlots(uniq[i])) = uniq[i].nV
        /\ Len(uniq[i].slots) = uniq[i].nH + uniq[i].nV

\* A call has returned layouts of two different families of its total.
C18_Witness ==
    /\ EnumReturned
    /\ \E i, j \in DOMAIN uniq : uniq[i].nH # uniq[j].nH

\* ------------------------------------------------------------------------
\* Properties of place and unplace
\* ------------------------------------------------------------------------

\* The words can_place accepts in the current state, with their slots.
Placeable ==
    {sw \in UNION {{<<sid, P.cand[sid][k]>> : k \in DOMAIN P.cand[sid]} :
                       sid \in SlotIds(P) \ DOMAIN sol} :
        can_place(P, St, sw[1], sw[2])}

\* C20: unplace is the exact inverse of place: from any reachable search
\* state, placing a word that can_place accepts and then unplacing it restores
\* the letter budget, the cell-to-letter map, the per-cell reference counts
\* and the slot assignment.
C20_UnplaceInvertsPlace ==
    \A sw \in Placeable :
        LET back == unplace(P, place(P, St, sw[1], sw[2]), sw[1], sw[2])
        IN  /\ back.budget = budget
            /\ back.cell_letter = cell_letter
            /\ back.cell_usage = cell_usage
            /\ back.sol = sol

\* The search is about to place an accepted word that crosses a word already
\* on the grid: one of its cells is shared, the others are fresh.
C20_Witness ==
    /\ pc = "try"
    /\ \E sw \in Placeable :
           /\ sw[1] = P.ids[Len(stack)]
           /\ sw[2] = P.cand[sw[1]][stack[Len(stack)]]
           /\ \E c \in Range(by_id(P, sw[1]).cells) : cell_usage[c] > 0
           /\ \E c \in Range(by_id(P, sw[1]).cells) : cell_usage[c] = 0

\* ------------------------------------------------------------------------
\* Properties of load_dictionary
\* ------------------------------------------------------------------------

\* What each line of SampleLines says, read as the documented format
\* "<rating 1-10><tab><word>" or "<word>": its rating (<<>> when unrated) and
\* the normalized form of its word (<<>> for a blank line).
Documented ==
    << [rating |-> <<9>>, form |-> <<"A", "B", "L", "E">>],
       [rating |-> <<3>>, form |-> <<"A", "B", "L", "E">>],
       [rating |-> <<>>, form |-> <<"A", "B", "L", "E">>],
       [rating |-> <<3>>, form |-> <<"B", "O", "L", "E">>],
       [rating |-> <<10>>, form |-> <<"B", "O", "L", "E">>],
       [rating |-> <<9>>, form |-> <<"A", "L", "E">>],
       [rating |-> <<>>, form |-> <<"N", "O", "T", "A", "B", "L", "E", "S">>],
       [rating |-> <<5>>, form |-> <<"S", "T", "A", "B", "L", "E", "S">>],
       [rating |-> <<>>, form |-> <<>>] >>

DocumentedForms == {Documented[i].form : i \in DOMAIN Documented}

\* Some line of the file has the form W and is unrated or rated R or more.
HasQualifyingLine(W) ==
    \E i \in DOMAIN dict_file :
        /\ Documented[dict_file[i]].form = W
        /\ \/ Documented[dict_file[i]].rating = <<>>
           \/ Documented[dict_file[i]].rating[1] >= min_rating

\* How often W stands in the bucket of length L of the output.
TimesInBucket(W, L) ==
    IF L \in DOMAIN by_len
    THEN Cardinality({k \in DOMAIN by_len[L] : by_len[L][k] = W})
    ELSE 0

DictReturned == dpc = "done"

\* C19: load_dictionary puts a normalized word into its output exactly once,
\* in the bucket keyed by its length, if and only if its normalized length is
\* in 4..7 and at least one input line with that normalized form is unrated or
\* has rating >= R; a word whose only lines are rated below R never appears.
C19_LoadedExactly ==
    (DictReturned /\ file_found) =>
        /\ \A L \in DOMAIN by_len :
               Range(by_len[L]) \subseteq DocumentedForms
        /\ \A W \in DocumentedForms : \A L \in (DOMAIN by_len) \cup {Len(W)} :
               TimesInBucket(W, L) =
                   IF /\ L = Len(W)
                      /\ 4 <= Len(W) /\ Len(W) <= 7
                      /\ HasQualifyingLine(W)
                   THEN 1 ELSE 0

\* A file has been loaded in which one word has a line rated below R and a
\* line rated R or more, and another word of fitting length has only lines
\* rated below R.
C19_Witness ==
    /\ DictReturned /\ file_found
    /\ \E i, j, k \in DOMAIN dict_file :
           LET a == Documented[dict_file[i]]
               b == Documented[dict_file[j]]
               c == Documented[dict_file[k]]
           IN  /\ a.form = b.form
               /\ a.rating # <<>> /\ a.rating[1] < min_rating
               /\ b.rating # <<>> /\ b.rating[1] >= min_rating
               /\ c.form # a.form /\ Len(c.form) = 4
               /\ ~HasQualifyingLine(c.form)
               /\ TimesInBucket(a.form, 4) = 1

\* ------------------------------------------------------------------------
\* Properties of main
\* ------------------------------------------------------------------------

\* C14: with --total_solutions_cap N > 0, the number of solutions recorded
\* over all the layouts attempted in a run of main never exceeds N.
C14_TotalCapRespected ==
    (mpc # "off" /\ total_solutions_cap > 0) =>
        total_solutions <= total_solutions_cap

\* The dictionary has no word for some slot of the layout: none of the
\* slot's length whose letters the phrase can supply.
LacksWords(layout) ==
    LET lay == LayoutOf(arg_min_intersections, fam_orders, layout)
        supplies(w) == \A ch \in Range(w) :
                          Cardinality({i \in DOMAIN w : w[i] = ch})
                              <= Cardinality({i \in DOMAIN letters : letters[i] = ch})
    IN  \E n \in DOMAIN lay.slots :
           \A L \in DOMAIN MainWordsByLen :
              L = lay.slots[n].length =>
                 \A x \in DOMAIN MainWordsByLen[L] : ~supplies(MainWordsByLen[L][x])

\* C17: when the loop of main comes to a selected layout with an empty
\* candidate pool for some slot, it starts no search for it, writes its block
\* with zero solutions, leaves the solution totals as they are, and stays in
\* the loop for the next selected layout instead of ending the run.
C17_EmptyPoolSkipped ==
    [][(mpc = "loop" /\ idx < Len(selected) /\ LacksWords(selected[idx + 1])) =>
          /\ mpc' = "loop"
          /\ idx' = idx + 1
          /\ report' = Append(report, <<selected[idx + 1], 0>>)
          /\ total_solutions' = total_solutions
          /\ solved_count' = solved_count
          /\ stopped_early' = stopped_early
          /\ UNCHANGED solverVars]_vars

\* A run has skipped a layout after having solved one, and has gone on to
\* solve another after the skip.
C17_Witness ==
    \E i, j, k \in DOMAIN report :
       /\ j < i /\ i < k
       /\ report[j][2] > 0
       /\ LacksWords(report[i][1]) /\ report[i][2] = 0
       /\ report[k][2] > 0
       /\ total_solutions >= 2

\* The distinct cells of a layout that lie in two of its slots, and their
\* number for each layout main can call the solver on.
CellsShared(slots) ==
    LET cellsOf(n) == Range(slots[n].cells)
    IN  {c \in UNION {cellsOf(n) : n \in DOMAIN slots} :
            \E a, b \in DOMAIN slots : a # b /\ c \in cellsOf(a) /\ c \in cellsOf(b)}

CrossingCount == [k \in MainCallKeys |-> Cardinality(CellsShared(MainSlots[k]))]

CrossingCells(layout) == CrossingCount[CallKey(layout)]

\* main has ranked its layouts and chosen the ones to attempt.
Ranked == mpc \in {"loop", "call"} \/ (mpc = "done" /\ main_layouts # <<>>)

\* The ranking lists each of the n feasible layouts once, in non-increasing
\* order of crossing cells; the chosen layouts are its first min(K, n) entries
\* (none for K < 0); no layout left out has more crossing cells than a chosen one.
RankedWell ==
    LET n == Len(main_layouts)
        K == IF max_grids > 0 THEN max_grids ELSE 0
    IN  /\ Len(ranked_layouts) = n
        /\ Range(ranked_layouts) = Range(main_layouts)
        /\ \A i, j \in DOMAIN ranked_layouts :
              i < j => CrossingCells(ranked_layouts[i])
                           >= CrossingCells(ranked_layouts[j])
        /\ Len(selected) = (IF K < n THEN K ELSE n)
        /\ \A i \in DOMAIN selected : selected[i] = ranked_layouts[i]
        /\ \A a \in Range(selected) :
              \A u \in Range(main_layouts) \ Range(selected) :
                 CrossingCells(u) <= CrossingCells(a)

SecondRanked == run = 2 /\ Ranked

NothingPlaced ==
    /\ sol = <<>>
    /\ cell_letter = <<>>
    /\ \A c \in DOMAIN cell_usage : cell_usage[c] = 0
    /\ \A ch \in Letters : budget[ch] = Counter(P.phrase_letters)[ch]

\* C21: when find_solutions_for_grid stops, whether the candidates ran out,
\* the solution cap was reached or the deadline expired, every place has been
\* undone: the working assignment is empty, no cell is claimed and the budget
\* is the multiset of the phrase's letters.
C21_AllUndoneAtReturn ==
    (pc = "done" \/ (pc = "return" /\ stack = <<>>)) => NothingPlaced

\* The call has returned after the deadline stopped it below a place made
\* past the cutoff, with a solution already found.
C21_Witness ==
    /\ Returned
    /\ CutoffPassed
    /\ placesAfterCutoff = 1
    /\ solutions # <<>>
    /\ NothingPlaced

\* The distinct cells of the slots that hold a word.
CoveredCells == UNION {Range(by_id(P, sid).cells) : sid \in DOMAIN sol}

\* C22: a cell shared by two placed slots is charged once: in every state of
\* the search each letter's remaining budget is at least 0, and the letters
\* left in the budget plus the distinct cells covered by the placed slots are
\* as many as the letters of the phrase.
C22_SharedCellsChargedOnce ==
    /\ \A ch \in Letters : budget[ch] >= 0
    /\ SumOver(budget, Letters) + Cardinality(CoveredCells) = Len(P.phrase_letters)

\* Three slots are placed and two cells each lie in two of them.
C22_Witness ==
    /\ Cardinality(DOMAIN sol) >= 3
    /\ Cardinality({c \in CoveredCells :
                       Cardinality({sid \in DOMAIN sol :
                                       c \in Range(by_id(P, sid).cells)}) = 2}) >= 2
    /\ SumOver(budget, Letters) > 0

\* Every complete assignment of dictionary words of the right length to the
\* slots, whether the prefilter keeps the words or not.
DictAssignments(i) ==
    LET slots == Instances[i].slots
        pool(n) == Range(PoolOfLength(Instances[i].words_by_len, slots[n].length))
        upTo[n \in 0..Len(slots)] ==
            IF n = 0 THEN {<<>>}
            ELSE {Put(a, slots[n].id, w) : a \in upTo[n - 1], w \in pool(n)}
    IN  upTo[Len(slots)]

\* Those with consistent crossings that use the letter budget exactly.
ValidDictAssignmentsOf(i) ==
    {a \in DictAssignments(i) :
        CrossingsAgree(Problem[i], a) /\ UsesPhraseExactly(Problem[i], a)}

\* Per call, the pairs <<slot, word>> that occur in them.
UsedInValidAssignments ==
    [i \in DOMAIN Instances |->
        {<<sid, a[sid]>> : a \in ValidDictAssignmentsOf(i),
                           sid \in SlotIds(Problem[i])}] \o <<>>

\* The dictionary words of a slot's length that the prefilter left out.
LeftOut(sid) ==
    Range(PoolOfLength(Instances[inst].words_by_len, by_id(P, sid).length))
        \ Range(P.cand[sid])

\* C23: the prefilter loses nothing: every word of a complete assignment of
\* dictionary words that has consistent crossings and uses the letter budget
\* exactly is in the pool prefilter_candidates builds for its slot.
C23_PrefilterLosesNothing ==
    \A u \in UsedInValidAssignments[inst] : u[2] \in Range(P.cand[u[1]])

\* The call has returned a solution, valid assignments exist, and the
\* prefilter has left dictionary words out of a pool.
C23_Witness ==
    /\ Returned
    /\ solutions # <<>>
    /\ UsedInValidAssignments[inst] # {}
    /\ \E sid \in SlotIds(P) : LeftOut(sid) # {}

\* ------------------------------------------------------------------------
\* Slots as runs, and the crossing list
\* ------------------------------------------------------------------------

\* Cell (r, c) is on the grid and filled.
Filled(mask, r, c) == r \in DOMAIN mask /\ c \in DOMAIN mask[0] /\ mask[r][c] = 1

\* The cell sequences of the maximal horizontal runs of two or more filled cells.
AcrossRuns(mask) ==
    {[k \in 1..(ce - cs + 1) |-> <<r, cs + k - 1>>] :
        <<r, cs, ce>> \in
            {t \in (DOMAIN mask) \X (DOMAIN mask[0]) \X (DOMAIN mask[0]) :
                /\ t[2] < t[3]
                /\ \A c \in t[2]..t[3] : Filled(mask, t[1], c)
                /\ ~Filled(mask, t[1], t[2] - 1)
                /\ ~Filled(mask, t[1], t[3] + 1)}}

\* The cell sequences of the maximal vertical runs of two or more filled cells.
DownRuns(mask) ==
    {[k \in 1..(re - rs + 1) |-> <<rs + k - 1, c>>] :
        <<c, rs, re>> \in
            {t \in (DOMAIN mask[0]) \X (DOMAIN mask) \X (DOMAIN mask) :
                /\ t[2] < t[3]
                /\ \A r \in t[2]..t[3] : Filled(mask, r, t[1])
                /\ ~Filled(mask, t[2] - 1, t[1])
                /\ ~Filled(mask, t[3] + 1, t[1])}}

\* The cells just before and just after a slot along its axis.
EndNeighbours(slot) ==
    LET first == slot.cells[1]
        last == slot.cells[Len(slot.cells)]
    IN  IF slot.orient = "H"
        THEN {<<first[1], first[2] - 1>>, <<last[1], last[2] + 1>>}
        ELSE {<<first[1] - 1, first[2]>>, <<last[1] + 1, last[2]>>}

SlotsAreTheRuns(lay) ==
    /\ \A k \in DOMAIN lay.slots :
           \A rc \in EndNeighbours(lay.slots[k]) : ~Filled(lay.mask, rc[1], rc[2])
    /\ \A cells \in AcrossRuns(lay.mask) :
           Cardinality({k \in AcrossSlots(lay) : lay.slots[k].cells = cells}) = 1
    /\ \A cells \in DownRuns(lay.mask) :
           Cardinality({k \in DownSlots(lay) : lay.slots[k].cells = cells}) = 1

\* C24: in every layout returned by enumerate_layouts each slot is a maximal
\* run and every run is a slot: the cells just before and just after a slot
\* along its axis are empty or off the grid, and every maximal horizontal or
\* vertical run of two or more filled cells is exactly the cell sequence of
\* one slot.
C24_SlotsAreMaximalRuns ==
    \A i \in DOMAIN uniq : SlotsAreTheRuns(uniq[i])

\* A returned layout with an across slot and a down slot that both stop
\* inside the grid: each has an empty cell of the grid before it and after it.
C24_Witness ==
    /\ EnumReturned
    /\ \E i \in DOMAIN uniq :
           \E a \in AcrossSlots(uniq[i]) : \E d \in DownSlots(uniq[i]) :
               /\ \A rc \in EndNeighbours(uniq[i].slots[a]) :
                      rc[1] \in DOMAIN uniq[i].mask /\ rc[2] \in DOMAIN uniq[i].mask[0]
               /\ \A rc \in EndNeighbours(uniq[i].slots[d]) :
                      rc[1] \in DOMAIN uniq[i].mask /\ rc[2] \in DOMAIN uniq[i].mask[0]

\* The slots of a layout that contain a cell.
SlotsThrough(lay, cell) == {k \in DOMAIN lay.slots : cell \in Range(lay.slots[k].cells)}

\* The cells of a layout covered by two slots or more.
SharedCells(lay) ==
    {cell \in AllCells(lay) : Cardinality(SlotsThrough(lay, cell)) >= 2}

TotalSlotLength(lay) ==
    SumOver([k \in DOMAIN lay.slots |-> lay.slots[k].length], DOMAIN lay.slots)

CrossingListExact(lay) ==
    /\ \A cell \in AllCells(lay) : Cardinality(SlotsThrough(lay, cell)) <= 2
    /\ \A cell \in SharedCells(lay) :
           Cardinality({x \in DOMAIN lay.inter : lay.inter[x].cell = cell}) = 1
    /\ \A x \in DOMAIN lay.inter :
           LET rec == lay.inter[x]
           IN  /\ \E a \in AcrossSlots(lay) :
                      /\ lay.slots[a].id = rec.slot_a
                      /\ rec.pos_a + 1 \in DOMAIN lay.slots[a].cells
                      /\ lay.slots[a].cells[rec.pos_a + 1] = rec.cell
               /\ \E b \in DownSlots(lay) :
                      /\ lay.slots[b].id = rec.slot_b
                      /\ rec.pos_b + 1 \in DOMAIN lay.slots[b].cells
                      /\ lay.slots[b].cells[rec.pos_b + 1] = rec.cell
    /\ Len(lay.inter) = Cardinality(SharedCells(lay))
    /\ lay.filled = TotalSlotLength(lay) - Len(lay.inter)

\* C25: in every layout returned by enumerate_layouts the crossing list has
\* exactly one record per cell covered by two slots, no cell is covered by
\* more than two slots, and each record pairs one across slot (slot_a) with
\* one down slot (slot_b) at positions that both index the recorded cell; so
\* the crossing count is the number of distinct crossing cells and the
\* filled-cell count is the sum of the slot lengths minus the crossing count.
C25_CrossingListExact ==
    \A i \in DOMAIN uniq : CrossingListExact(uniq[i])

\* A returned layout with a down slot that crosses two across slots, at a
\* position other than the first of the down slot and of the across slot.
C25_Witness ==
    /\ EnumReturned
    /\ \E i \in DOMAIN uniq : \E x, y \in DOMAIN uniq[i].inter :
           /\ x # y
           /\ uniq[i].inter[x].slot_b = uniq[i].inter[y].slot_b
           /\ uniq[i].inter[y].pos_a > 0
           /\ uniq[i].inter[y].pos_b > 0

\* ------------------------------------------------------------------------
\* The duplicate check, the goal test and the deadline switch
\* ------------------------------------------------------------------------

\* No candidate list of the call holds a word twice.
NoRepeatedCandidates ==
    \A sid \in SlotIds(P) :
        \A i, j \in DOMAIN P.cand[sid] : P.cand[sid][i] = P.cand[sid][j] => i = j

\* dfs has been entered with every slot assigned.
AllSlotsAssigned == pc = "enter" /\ Len(stack) = Len(P.ids)

\* C26: when no candidate list holds a repeated word the seen-signature check
\* suppresses nothing: whenever dfs is entered with every slot assigned and
\* the budget exactly used, the signature of the assignment is not among the
\* signatures seen, so the goal test records the assignment.
C26_NothingSuppressed ==
    (NoRepeatedCandidates /\ AllSlotsAssigned /\ budget_exact(budget))
        => class_signature(P, sol) \notin seen_signatures

\* A second goal is reached, with pools free of repeats, after a first one
\* was recorded, and two slots of one class hold different words.
C26_Witness ==
    /\ NoRepeatedCandidates
    /\ AllSlotsAssigned
    /\ budget_exact(budget)
    /\ seen_signatures # {}
    /\ \E a, b \in DOMAIN sol :
           a # b /\ P.sid_to_class[a] = P.sid_to_class[b] /\ sol[a] # sol[b]

\* The layout has as many filled cells as the phrase has letters: lay[7] == L.
FilledEqualsLetters == Cardinality(AllCells(P)) = Len(P.phrase_letters)

EverySlotAssigned == DOMAIN sol = SlotIds(P)

\* C27: when the layout's filled-cell count equals the number of phrase
\* letters, every state in which all slots are assigned has a remaining
\* budget of exactly zero for every letter, so the goal test never fails.
C27_GoalTestNeverFails ==
    (FilledEqualsLetters /\ EverySlotAssigned)
        => (\A ch \in Letters : budget[ch] = 0) /\ budget_exact(budget)

\* dfs is entered with every slot of a layout of three or more slots
\* assigned, the cell count matching the phrase, and the goal test ahead.
C27_Witness ==
    /\ FilledEqualsLetters
    /\ EverySlotAssigned
    /\ AllSlotsAssigned
    /\ Len(P.slots) >= 3
    /\ ~time_up(clock, per_grid_time)
    /\ Len(solutions) < max_solutions

\* C28: a per-layout time limit of 0, a negative one or None disables the
\* deadline: the clock never reaches it, and every return of dfs is then due
\* to the solution cap, to a complete assignment, or to the candidates of the
\* slot being exhausted, never to elapsed time.
C28_NoDeadlineNoTimeout ==
    [][NoDeadline =>
          /\ ~time_up(clock, per_grid_time)
          /\ ~time_up(clock', per_grid_time)
          /\ (pc = "enter" /\ pc' = "return")
                => (Len(solutions) >= max_solutions \/ Len(stack) = Len(P.ids))
          /\ (pc = "loop" /\ pc' = "return")
                => stack[Len(stack)] > Len(P.cand[P.ids[Len(stack)]])
          /\ (pc = "return" /\ pc' = "return" /\ Len(stack') < Len(stack))
                => Len(solutions) >= max_solutions]_vars

\* The limit is negative, the clock has run as far as it goes, a solution is
\* recorded and the search is still trying words.
C28_Witness ==
    /\ per_grid_time # <<>>
    /\ per_grid_time[1] < 0
    /\ clock = MaxClock
    /\ pc = "try"
    /\ solutions # <<>>

\* ------------------------------------------------------------------------
\* The cap entered at the prompt
\* ------------------------------------------------------------------------

\* The solutions counted so far, those of the call in progress included.
SolutionsSoFar == total_solutions + (IF mpc = "call" THEN Len(solutions) ELSE 0)

\* The solutions reported for the layouts before entry i of the report.
ReportedBefore(i) == SumOver([j \in 1..(i - 1) |-> report[j][2]], 1..(i - 1))

\* The cap is never exceeded, and once it is reached a call gets the maximum
\* 0 and a reported layout has no solutions.
PromptCapHolds ==
    /\ SolutionsSoFar <= global_cap
    /\ (mpc = "call" /\ total_solutions >= global_cap)
          => max_solutions = 0 /\ solutions = <<>>
    /\ \A i \in DOMAIN report : ReportedBefore(i) >= global_cap => report[i][2] = 0

PlacedThrough(c) == {sid \in DOMAIN sol : c \in Range(by_id(P, sid).cells)}

\* C30: in every reachable search state the reference count of a cell is the
\* number of currently placed slots that contain it (0, 1 or 2), a cell has a
\* recorded letter if and only if its count is positive, and the recorded
\* letter is the letter each of those placed words has at that cell.
C30_ReferenceCounts ==
    /\ DOMAIN cell_usage = AllCells(P)
    /\ DOMAIN cell_letter \subseteq AllCells(P)
    /\ \A c \in AllCells(P) :
          /\ cell_usage[c] = Cardinality(PlacedThrough(c))
          /\ cell_usage[c] \in {0, 1, 2}
          /\ c \in DOMAIN cell_letter <=> cell_usage[c] > 0
          /\ \A sid \in PlacedThrough(c) :
                cell_letter[c] = sol[sid][PosOf(by_id(P, sid), c) + 1]

\* The search stands between two candidates of a slot after a solution was
\* recorded: some cell is held by two placed slots, some by one, and some
\* cell is held by none and carries no letter.
C30_Witness ==
    /\ pc = "loop"
    /\ \E c \in AllCells(P) : cell_usage[c] = 2
    /\ \E c \in AllCells(P) : cell_usage[c] = 1
    /\ \E c \in AllCells(P) : cell_usage[c] = 0 /\ c \notin DOMAIN cell_letter
    /\ solutions # <<>>

====
